---- MODULE Spec2Model ----
(***************************************************************************)
(* RoadNerd diagnostic idea pipeline: CommandExecutor, BrainstormEngine    *)
(* (tolerant parsing of the LLM reply) and JudgeEngine.                    *)
(*                                                                         *)
(* Text is modelled as a sequence of one-character strings, so substring   *)
(* search and lower-casing are computed, not assumed.                      *)
(***************************************************************************)
EXTENDS Integers, Sequences, FiniteSets, TLC

VARIABLES
    pc,           \* position of the modelled call: which component, which step
    cmd,          \* CommandExecutor: the command string (sequence of characters)
    analysis,     \* CommandExecutor: last value returned by analyze_command
    safe_mode,    \* CommandExecutor: the safe_mode argument of execute_safely
    exec_result,  \* CommandExecutor: last value returned by execute_safely
    shell_calls,  \* CommandExecutor: number of subprocess.run invocations
    proc,         \* CommandExecutor: what the spawned subprocess did ("none": not spawned)
    ideas_in,     \* JudgeEngine: the ideas argument of judge_ideas
    issue,        \* JudgeEngine: the issue argument (sequence of characters)
    system_info,  \* JudgeEngine: what SystemDiagnostics.get_system_info() returned
    ranked,       \* JudgeEngine: last value returned by judge_ideas
    style,        \* LLM collaborator: the vocabulary its reply is made of
    chunks,       \* LLM collaborator: number of chunks emitted so far
    response,     \* LLM collaborator: the reply text (sequence of lexemes)
    ideas,        \* _parse_ideas_response: the local list ideas
    tried,        \* _parse_ideas_response: the strategies applied so far, in order
    n_arg,        \* generate_ideas: the argument n
    creativity_arg, \* generate_ideas: the argument creativity
    llm_request,  \* generate_ideas: calls of get_response, with their parameters
    result,       \* generate_ideas: the returned list
    probe_checks, \* api_probe: the checks of the idea in the request
    evidence,     \* api_probe: the idea's evidence mapping, as (check, kind) pairs
    probe_spawned, \* api_probe: the commands handed to subprocess.run, in order
    segments,     \* InputDetector: the text, as runs of repeated lines
    detect_result, \* InputDetector: last value returned by detect
    classify_text, \* CategoryClassifier: the text argument (sequence of characters)
    word_count,   \* CategoryClassifier: number of pieces the text was built from
    prediction,   \* CategoryClassifier: last value returned by classify
    emb_provider, \* CategoryClassifier: what loading the embedding provider did in __init__
    emb_loaded,   \* CategoryClassifier: self._emb is not None
    emb_outcome,  \* CategoryClassifier: what the embedding path did in the last classify
    conversation_context, \* RoadNerdClient: the stored context items
    max_context_items,    \* RoadNerdClient: the capacity attribute
    added,        \* RoadNerdClient: every item passed to add_to_context, in order
    config_safe_mode,     \* server: CONFIG['safe_mode']
    configured_safe_mode, \* server: the value CONFIG['safe_mode'] was loaded with
    allow_force,  \* server: RN_ALLOW_FORCE is set in the environment
    requests,     \* server: the /api/execute requests and where each one stands
    docs,         \* HybridRetriever: self.docs, the loaded (source, paragraph) pairs
    docs_loaded,  \* HybridRetriever: self.docs as the constructor left it
    query,        \* HybridRetriever: the query argument of search (sequence of characters)
    query_pieces, \* HybridRetriever: number of pieces the query was built from
    search_args,  \* HybridRetriever: the category_hint and k arguments of search
    snippets,     \* HybridRetriever: last value returned by search
    tpl,          \* TemplateLoader: the template text (sequence of characters)
    tpl_pieces,   \* TemplateLoader: number of pieces the template was built from
    ctx,          \* render_template: the context, its entries in dict order
    prompt        \* render_template: last value returned

execVars == <<cmd, analysis, safe_mode, exec_result, shell_calls, proc>>
judgeVars == <<ideas_in, issue, system_info, ranked>>
replyVars == <<style, chunks, response>>
parseVars == <<ideas, tried>>
genVars == <<n_arg, creativity_arg, llm_request, result>>
probeVars == <<probe_checks, evidence, probe_spawned>>
coreVars == <<execVars, judgeVars, replyVars, parseVars, genVars>>
detectVars == <<segments, detect_result>>
embVars == <<emb_provider, emb_loaded, emb_outcome>>
classifyVars == <<classify_text, word_count, prediction, embVars>>
clientVars == <<conversation_context, max_context_items, added>>
serverVars == <<config_safe_mode, configured_safe_mode, allow_force, requests>>
retrieveVars == <<docs, docs_loaded, query, query_pieces, search_args, snippets>>
renderVars == <<tpl, tpl_pieces, ctx, prompt>>
serviceVars == <<probeVars, detectVars, classifyVars, clientVars, serverVars, retrieveVars, renderVars>>
vars == <<pc, coreVars, serviceVars>>

(***************************************************************************)
(* Bounds of the model.                                                    *)
(***************************************************************************)
MaxCmdLen == 11
MaxIdeas == 2
MaxChunks == 5

(***************************************************************************)
(* Text helpers.                                                           *)
(***************************************************************************)
\* Python's (pat in s) for strings: pat occurs as a contiguous substring of s.
Contains(pat, s) ==
    \E p \in {pat}, str \in {s} :
        \E i \in 1..(Len(str) - Len(p) + 1) : \A j \in 1..Len(p) : str[i + j - 1] = p[j]

Range(f) == {f[i] : i \in DOMAIN f}

\* str.lower() on one character (the letters the model's inputs use).
LowerChar(c) ==
    CASE c = "R" -> "r" [] c = "M" -> "m" [] c = "F" -> "f" [] c = "D" -> "d"
      [] c = "I" -> "i" [] c = "K" -> "k" [] c = "S" -> "s" [] c = "O" -> "o"
      [] c = "A" -> "a" [] c = "T" -> "t" [] c = "U" -> "u" [] c = "E" -> "e"
      [] c = "V" -> "v" [] c = "N" -> "n" [] c = "C" -> "c" [] c = "L" -> "l"
      [] c = "W" -> "w" [] c = "B" -> "b" [] c = "Y" -> "y" [] c = "P" -> "p"
      [] c = "G" -> "g"
      [] OTHER -> c

\* str.lower()
Lower(s) == [i \in 1..Len(s) |-> LowerChar(s[i])]

(***************************************************************************)
(* CommandExecutor                                                         *)
(***************************************************************************)
\* dangerous_patterns = ['rm -rf', 'dd if=', 'mkfs', '> /dev/', 'format']
dangerous_patterns ==
    << <<"r","m"," ","-","r","f">>,
       <<"d","d"," ","i","f","=">>,
       <<"m","k","f","s">>,
       <<">"," ","/","d","e","v","/">>,
       <<"f","o","r","m","a","t">> >>

sudo == <<"s","u","d","o">>

\* f"Contains dangerous pattern: {pattern}"
DangerWarning(pattern) == [msg |-> "Contains dangerous pattern: ", pattern |-> pattern]

\* "Requires elevated privileges"
ElevationWarning == [msg |-> "Requires elevated privileges", pattern |-> <<>>]

\* Variant of the loop that compares against cmd instead of cmd.lower().
RECURSIVE ScanPatternsCaseSensitive(_, _, _, _)
ScanPatternsCaseSensitive(c, i, risk_level, warnings) ==
    IF i > Len(dangerous_patterns) THEN [risk_level |-> risk_level, warnings |-> warnings]
    ELSE IF Contains(dangerous_patterns[i], c)
         THEN ScanPatternsCaseSensitive(c, i + 1, "high",
                           Append(warnings, DangerWarning(dangerous_patterns[i])))
         ELSE ScanPatternsCaseSensitive(c, i + 1, risk_level, warnings)

\* The for loop over dangerous_patterns, from index i on, carrying the
\* loop's two accumulators.
RECURSIVE ScanPatterns(_, _, _, _)
ScanPatterns(c, i, risk_level, warnings) ==
    IF i > Len(dangerous_patterns) THEN [risk_level |-> risk_level, warnings |-> warnings]
    ELSE IF Contains(dangerous_patterns[i], Lower(c))
         THEN ScanPatterns(c, i + 1, "high",
                           Append(warnings, DangerWarning(dangerous_patterns[i])))
         ELSE ScanPatterns(c, i + 1, risk_level, warnings)

\* Variant of the sudo branch that assigns 'medium' whatever the risk was.
SudoAlwaysMedium(c, acc) ==
    IF Contains(sudo, c)
    THEN [risk_level |-> "medium",
          warnings   |-> Append(acc.warnings, ElevationWarning)]
    ELSE acc

\* The branch taken if 'sudo' in cmd (case-sensitive: cmd is not lowered here).
SudoEscalate(c, acc) ==
    IF Contains(sudo, c)
    THEN [risk_level |-> IF acc.risk_level = "low" THEN "medium" ELSE "high",
          warnings   |-> Append(acc.warnings, ElevationWarning)]
    ELSE acc

AnalyzeCommand(c) ==
    LET acc == SudoEscalate(c, ScanPatterns(c, 1, "low", <<>>))
    IN  [command       |-> c,
         risk_level    |-> acc.risk_level,
         warnings      |-> acc.warnings,
         requires_sudo |-> Contains(sudo, c)]

NoAnalysis == [command |-> <<>>, risk_level |-> "none", warnings |-> <<>>,
               requires_sudo |-> FALSE]

NoResult == [executed |-> FALSE, output |-> "none", keys |-> {}, analysis |-> NoAnalysis]

\* What subprocess.run(cmd, shell=True, timeout=30) can do.
SubprocessOutcomes == {"exit0", "exit1", "timeout", "oserror"}

\* Variant of the refusal test that ignores the risk level 'high'.
BlockedOnlyWhenMedium(an, sm) == an.risk_level = "medium" /\ sm

\* The refusal branch of execute_safely.
Blocked(an, sm) == an.risk_level = "high" /\ sm

\* Variant of execute_safely that reports a timed-out run as executed.
ExecuteSafelyTimeoutAsRun(c, sm, outcome) ==
    LET an == AnalyzeCommand(c) IN
    IF Blocked(an, sm)
    THEN [executed |-> FALSE, output |-> "Command blocked in safe mode",
          keys |-> {"executed", "output", "analysis"}, analysis |-> an]
    ELSE IF outcome = "oserror"
    THEN [executed |-> FALSE, output |-> "str(e)",
          keys |-> {"executed", "output", "analysis"}, analysis |-> an]
    ELSE [executed |-> TRUE, output |-> "stdout or stderr",
          keys |-> {"executed", "output", "return_code", "analysis"},
          analysis |-> an]

\* execute_safely(cmd, safe_mode); outcome is what the subprocess does if it
\* is spawned.  keys is the set of keys of the returned dict.
ExecuteSafelyResult(c, sm, outcome) ==
    LET an == AnalyzeCommand(c) IN
    IF Blocked(an, sm)
    THEN [executed |-> FALSE, output |-> "Command blocked in safe mode",
          keys |-> {"executed", "output", "analysis"}, analysis |-> an]
    ELSE CASE outcome = "timeout" ->
                [executed |-> FALSE, output |-> "Command timed out",
                 keys |-> {"executed", "output", "analysis"}, analysis |-> an]
           [] outcome = "oserror" ->
                [executed |-> FALSE, output |-> "str(e)",
                 keys |-> {"executed", "output", "analysis"}, analysis |-> an]
           [] OTHER ->
                [executed |-> TRUE, output |-> "stdout or stderr",
                 keys |-> {"executed", "output", "return_code", "analysis"},
                 analysis |-> an]

\* Variant of execute_safely that runs the command a second time.
ShellSpawnsTwice(c, sm) == IF Blocked(AnalyzeCommand(c), sm) THEN 0 ELSE 2

\* Number of subprocess.run calls execute_safely makes.
ShellSpawns(c, sm) == IF Blocked(AnalyzeCommand(c), sm) THEN 0 ELSE 1

\* Fragments a caller's command is put together from.
CmdChunks ==
    { <<"r","m"," ">>, <<"-","r","f"," ","/">>, <<"R","M"," ","-","R","F">>,
      <<"D","d"," ","I","f","=">>, <<"m","k","f","s">>,
      <<">"," ","/","d","e","v","/">>, <<"f","o","r">>, <<"m","a","t">>,
      <<"s","u">>, <<"d","o"," ">>, <<"S","U","D","O"," ">>, <<"l","s">> }

\* The state of a component no call has reached yet.
ExecIdle ==
    /\ cmd = <<>>
    /\ analysis = NoAnalysis
    /\ safe_mode = TRUE
    /\ exec_result = NoResult
    /\ shell_calls = 0
    /\ proc = "none"

JudgeIdle ==
    /\ ideas_in = <<>>
    /\ issue = <<>>
    /\ system_info = [distro |-> <<>>]
    /\ ranked = <<>>

ProbeIdle ==
    /\ probe_checks = <<>>
    /\ evidence = {}
    /\ probe_spawned = <<>>

DetectIdle ==
    /\ segments = <<>>
    /\ detect_result = [label |-> "none", num |-> 0, den |-> 1]

ClassifyIdle ==
    /\ classify_text = <<>>
    /\ word_count = 0
    /\ prediction = [label |-> "none", num |-> 0, den |-> 1, candidates |-> <<>>]
    /\ emb_provider = "absent"
    /\ emb_loaded = FALSE
    /\ emb_outcome = [kind |-> "unused", label |-> "none", num |-> 0, den |-> 1]

\* RoadNerdClient.__init__
ClientIdle ==
    /\ conversation_context = <<>>
    /\ max_context_items = 10
    /\ added = <<>>

MaxRequests == 2

Requests == 1..MaxRequests

NoRequest ==
    [pc |-> "idle", is_str |-> TRUE, command |-> <<>>, force |-> FALSE,
     original |-> TRUE, status |-> 0, ran_safe_mode |-> TRUE,
     executed |-> FALSE, risk_level |-> "none"]

\* The values of the request's 'command': three strings and a JSON number.
ServerCommands ==
    { [is_str |-> TRUE, text |-> <<>>],
      [is_str |-> TRUE, text |-> <<"l","s">>],
      [is_str |-> TRUE, text |-> <<"m","k","f","s">>],
      [is_str |-> FALSE, text |-> <<"1","2","3">>] }

ServerIdle ==
    /\ config_safe_mode = TRUE
    /\ configured_safe_mode = TRUE
    /\ allow_force = FALSE
    /\ requests = [r \in Requests |-> NoRequest]

\* No retriever has been constructed.
RetrieveIdle ==
    /\ docs = <<>>
    /\ docs_loaded = <<>>
    /\ query = <<>>
    /\ query_pieces = 0
    /\ search_args = [category_hint |-> <<>>, k |-> 0]
    /\ snippets = <<>>

\* No template is being rendered.
RenderIdle ==
    /\ tpl = <<>>
    /\ tpl_pieces = 0
    /\ ctx = <<>>
    /\ prompt = <<>>

ServiceIdle == ProbeIdle /\ DetectIdle /\ ClassifyIdle /\ ClientIdle /\ ServerIdle /\ RetrieveIdle /\ RenderIdle

BrainstormIdle ==
    /\ style = "none"
    /\ chunks = 0
    /\ response = <<>>
    /\ ideas = <<>>
    /\ tried = <<>>
    /\ n_arg = 0
    /\ creativity_arg = 1
    /\ llm_request = <<>>
    /\ result = <<>>

InitExec ==
    /\ pc = "input"
    /\ ExecIdle
    /\ JudgeIdle
    /\ ServiceIdle
    /\ BrainstormIdle

\* The caller extends the command text.
TypeCmd(ch) ==
    /\ pc = "input"
    /\ Len(cmd) + Len(ch) <= MaxCmdLen
    /\ cmd' = cmd \o ch
    /\ UNCHANGED <<pc, analysis, safe_mode, exec_result, shell_calls, proc>>
    /\ UNCHANGED <<judgeVars, replyVars, parseVars, genVars>>
    /\ UNCHANGED serviceVars

\* CommandExecutor.analyze_command(cmd)
Analyze ==
    /\ pc = "input"
    /\ analysis' = AnalyzeCommand(cmd)
    /\ pc' = "analyzed"
    /\ UNCHANGED <<cmd, safe_mode, exec_result, shell_calls, proc>>
    /\ UNCHANGED <<judgeVars, replyVars, parseVars, genVars>>
    /\ UNCHANGED serviceVars

\* CommandExecutor.execute_safely(cmd, safe_mode=sm)
ExecuteSafely(sm, outcome) ==
    /\ pc = "input"
    /\ safe_mode' = sm
    /\ exec_result' = ExecuteSafelyResult(cmd, sm, outcome)
    /\ shell_calls' = shell_calls + ShellSpawns(cmd, sm)
    /\ proc' = IF ShellSpawns(cmd, sm) = 0 THEN "none" ELSE outcome
    /\ pc' = "executed"
    /\ UNCHANGED <<cmd, analysis, judgeVars, replyVars, parseVars, genVars>>
    /\ UNCHANGED serviceVars

NextExec ==
    \/ \E ch \in CmdChunks : TypeCmd(ch)
    \/ Analyze
    \/ \E sm \in BOOLEAN, outcome \in SubprocessOutcomes : ExecuteSafely(sm, outcome)

SpecExec == InitExec /\ [][NextExec]_vars

(***************************************************************************)
(* Claims about CommandExecutor (checked under SpecExec).                  *)
(***************************************************************************)
\* The dangerous patterns that occur in c, case-insensitively, in list order.
MatchingPatterns(c) ==
    SelectSeq(dangerous_patterns, LAMBDA p : Contains(p, Lower(c)))

\* The 'dangerous pattern' warnings among ws, as the patterns they name.
DangerEntries(ws) ==
    LET sel == SelectSeq(ws, LAMBDA w : w.msg = "Contains dangerous pattern: ")
    IN  [i \in 1..Len(sel) |-> sel[i].pattern]

RiskRank(r) == CASE r = "low" -> 0 [] r = "medium" -> 1 [] r = "high" -> 2 [] OTHER -> -1

\* C1: when execute_safely is called with safe_mode = true on a command
\* whose analysis is high risk, no subprocess is spawned (the shell call
\* count stays 0) and the result has executed = false.
C1_SafeModeNeverRunsHighRisk ==
    (pc = "executed" /\ safe_mode /\ exec_result.analysis.risk_level = "high")
        => (shell_calls = 0 /\ exec_result.executed = FALSE)

\* Witness of C1: a high-risk command assembled across fragments
\* ("rm " + "-rf /") was refused in safe mode.
C1_Witness ==
    /\ pc = "executed" /\ safe_mode
    /\ cmd = <<"r","m"," ","-","r","f"," ","/">>
    /\ exec_result.analysis.risk_level = "high"
    /\ exec_result.output = "Command blocked in safe mode"
    /\ shell_calls = 0

\* C9: analyze_command gives risk 'high' exactly when a dangerous substring
\* occurs case-insensitively; the warnings then hold one 'dangerous pattern'
\* entry per matching pattern, in pattern-list order; a command with no
\* dangerous substring and no 'sudo' has risk 'low' and no warnings.
C9_HighIffDangerousSubstring ==
    pc = "analyzed" =>
        /\ (analysis.risk_level = "high") <=> (MatchingPatterns(cmd) # <<>>)
        /\ DangerEntries(analysis.warnings) = MatchingPatterns(cmd)
        /\ (MatchingPatterns(cmd) = <<>> /\ ~Contains(sudo, cmd))
              => (analysis.risk_level = "low" /\ analysis.warnings = <<>>)

\* Witness of C9: an upper-case "RM -RF" followed by "mkfs" was analysed:
\* two warnings, 'rm -rf' before 'mkfs'.
C9_Witness ==
    /\ pc = "analyzed"
    /\ cmd = <<"R","M"," ","-","R","F","m","k","f","s">>
    /\ analysis.risk_level = "high"
    /\ Len(analysis.warnings) = 2
    /\ analysis.warnings[1].pattern = dangerous_patterns[1]
    /\ analysis.warnings[2].pattern = dangerous_patterns[3]

\* C10: 'sudo' only raises risk: a command containing 'sudo' is 'medium'
\* without a dangerous substring and 'high' with one, never 'low'; its last
\* warning is the elevation warning and the elevation flag is true; the
\* flag is true exactly when the command contains 'sudo'; and
\* risk('sudo ' + c) >= risk(c).
C10_SudoOnlyEscalates ==
    pc = "analyzed" =>
        /\ analysis.requires_sudo <=> Contains(sudo, cmd)
        /\ Contains(sudo, cmd) =>
              /\ analysis.risk_level =
                     (IF MatchingPatterns(cmd) = <<>> THEN "medium" ELSE "high")
              /\ Len(analysis.warnings) = Len(MatchingPatterns(cmd)) + 1
              /\ analysis.warnings[Len(analysis.warnings)] = ElevationWarning
        /\ ~Contains(sudo, cmd) => ElevationWarning \notin Range(analysis.warnings)
        /\ RiskRank(AnalyzeCommand(sudo \o <<" ">> \o cmd).risk_level)
              >= RiskRank(analysis.risk_level)

\* Witness of C10: "sudo " (typed as "su" + "do ") before a dangerous
\* command was analysed as high, with the elevation warning last.
C10_Witness ==
    /\ pc = "analyzed"
    /\ cmd = <<"s","u","d","o"," ","m","k","f","s">>
    /\ analysis.risk_level = "high"
    /\ analysis.requires_sudo
    /\ analysis.warnings = <<DangerWarning(dangerous_patterns[3]), ElevationWarning>>

\* C11: execute_safely always returns a result holding 'executed', 'output'
\* and 'analysis' (it never raises): a timeout gives executed = false with
\* the timeout text as output, any other execution error gives executed =
\* false with the error message, and only a completed run gives executed =
\* true together with a return code.
C11_FailuresAreResultFields ==
    pc = "executed" =>
        /\ {"executed", "output", "analysis"} \subseteq exec_result.keys
        /\ exec_result.analysis = AnalyzeCommand(cmd)
        /\ proc = "timeout" =>
              (~exec_result.executed /\ exec_result.output = "Command timed out")
        /\ proc = "oserror" =>
              (~exec_result.executed /\ exec_result.output = "str(e)")
        /\ proc = "none" =>
              (~exec_result.executed /\ exec_result.output = "Command blocked in safe mode")
        /\ exec_result.executed <=> proc \in {"exit0", "exit1"}
        /\ exec_result.executed <=> "return_code" \in exec_result.keys

\* Witness of C11: a command that was let through (safe mode off, high
\* risk) timed out and the timeout came back as a result.
C11_Witness ==
    /\ pc = "executed" /\ ~safe_mode
    /\ exec_result.analysis.risk_level = "high"
    /\ proc = "timeout"
    /\ shell_calls = 1
    /\ exec_result.executed = FALSE
    /\ exec_result.output = "Command timed out"
    /\ exec_result.keys = {"executed", "output", "analysis"}

(***************************************************************************)
(* JudgeEngine                                                             *)
(*                                                                         *)
(* Scores are kept exactly, in tenths (sub-scores) and in thousandths      *)
(* (total_score): 0.9 is 9 and a total of 0.92 is 920.  The float results  *)
(* of the code differ from these by rounding error below 1e-15; the order  *)
(* of two totals that are equal in thousandths is decided by that rounding *)
(* (total_round).                                                          *)
(***************************************************************************)
Min(a, b) == IF a < b THEN a ELSE b

\* any(word in s.lower() for s in strs)
AnyLowerContains(word, strs) ==
    \E k \in 1..Len(strs) : Contains(word, Lower(strs[k]))

\* any(w in text for w in words)
AnyWordIn(words, text) == \E w \in words : Contains(w, text)

ubuntu == <<"u","b","u","n","t","u">>
nmcli == <<"n","m","c","l","i">>
systemctl == <<"s","y","s","t","e","m","c","t","l">>
reboot == <<"r","e","b","o","o","t">>
reinstall == <<"r","e","i","n","s","t","a","l","l">>
wifi == <<"w","i","f","i">>
wireless == <<"w","i","r","e","l","e","s","s">>
dns == <<"d","n","s">>
resolution == <<"r","e","s","o","l","u","t","i","o","n">>
network == <<"n","e","t","w","o","r","k">>
interface == <<"i","n","t","e","r","f","a","c","e">>

\* Variant of the risk map with the values of 'low' and 'high' exchanged.
SafetyScoreSwapped(risk) ==
    CASE risk = "low" -> 2 [] risk = "medium" -> 6 [] risk = "high" -> 9 [] OTHER -> 5

\* risk_map = {'low': 0.9, 'medium': 0.6, 'high': 0.2}; risk_map.get(idea.risk, 0.5)
SafetyScore(risk) ==
    CASE risk = "low" -> 9 [] risk = "medium" -> 6 [] risk = "high" -> 2 [] OTHER -> 5

\* The category-match condition of _score_idea.
CategoryMatches(category, issue_lower) ==
    \/ category = "wifi"    /\ AnyWordIn({wifi, wireless}, issue_lower)
    \/ category = "dns"     /\ AnyWordIn({dns, resolution}, issue_lower)
    \/ category = "network" /\ AnyWordIn({network, interface}, issue_lower)

\* likelihood before the final min(likelihood, 1.0)
RawLikelihood(idea, iss, info) ==
    5 + (IF Contains(ubuntu, Lower(info.distro))
         THEN (IF AnyLowerContains(nmcli, idea.checks) THEN 3 ELSE 0)
              + (IF AnyLowerContains(systemctl, idea.checks) THEN 2 ELSE 0)
         ELSE 0)
      + (IF CategoryMatches(idea.category, Lower(iss)) THEN 2 ELSE 0)

\* Variant that leaves out the final min(likelihood, 1.0).
LikelihoodScoreUnclamped(idea, iss, info) == RawLikelihood(idea, iss, info)

LikelihoodScore(idea, iss, info) == Min(RawLikelihood(idea, iss, info), 10)

\* cost: 0.8, 0.3 if a fix mentions reboot, 0.1 if a fix mentions reinstall
CostScore(idea) ==
    IF AnyLowerContains(reinstall, idea.fixes) THEN 1
    ELSE IF AnyLowerContains(reboot, idea.fixes) THEN 3
    ELSE 8

\* determinism: 0.7, +0.2 with checks, -0.1 with more than one fix, min 1.0
DeterminismScore(idea) ==
    Min(7 + (IF Len(idea.checks) > 0 THEN 2 ELSE 0)
          - (IF Len(idea.fixes) > 1 THEN 1 ELSE 0), 10)

\* JudgeEngine._score_idea
ScoreIdea(idea, iss, info) ==
    [safety             |-> SafetyScore(idea.risk),
     success_likelihood |-> LikelihoodScore(idea, iss, info),
     cost               |-> CostScore(idea),
     determinism        |-> DeterminismScore(idea)]

\* The weighted total of judge_ideas, in thousandths.
TotalScore(scores) ==
    scores.safety * 30 + scores.success_likelihood * 40
        + scores.cost * 20 + scores.determinism * 10

\* The float total_score of the code is not always the double nearest to
\* the exact total: for the sub-score tuples <<safety, success_likelihood,
\* cost, determinism>> (in tenths) listed here, the sums and products of
\* judge_ideas and _score_idea round to a double the given number of half
\* units in the last place (of the totals from 0.5 up) above or below it.
RoundedUpFour ==
    {
      <<5, 8, 8, 6>>, <<6, 10, 3, 6>>, <<9, 5, 8, 6>>, <<9, 8, 3, 6>>
    }

RoundedUpTwo ==
    {
      <<2, 8, 1, 7>>, <<2, 8, 1, 8>>, <<2, 8, 1, 9>>, <<2, 8, 8, 6>>, <<2, 9, 8, 6>>,
      <<2, 10, 1, 9>>, <<2, 10, 3, 6>>, <<2, 10, 8, 6>>, <<2, 10, 8, 7>>, <<2, 10, 8, 8>>,
      <<2, 10, 8, 9>>, <<5, 5, 8, 6>>, <<5, 8, 1, 8>>, <<5, 8, 1, 9>>, <<5, 8, 3, 6>>,
      <<5, 8, 8, 7>>, <<5, 8, 8, 8>>, <<5, 8, 8, 9>>, <<5, 9, 1, 6>>, <<5, 9, 3, 6>>,
      <<5, 10, 1, 6>>, <<5, 10, 3, 6>>, <<5, 10, 3, 8>>, <<5, 10, 3, 9>>, <<6, 5, 8, 6>>,
      <<6, 7, 3, 6>>, <<6, 8, 1, 6>>, <<6, 8, 3, 6>>, <<6, 9, 1, 6>>, <<6, 9, 3, 6>>,
      <<6, 9, 3, 9>>, <<6, 10, 1, 6>>, <<6, 10, 1, 9>>, <<6, 10, 3, 7>>, <<6, 10, 3, 8>>,
      <<6, 10, 3, 9>>, <<6, 10, 8, 8>>, <<6, 10, 8, 9>>, <<9, 5, 1, 8>>, <<9, 5, 1, 9>>,
      <<9, 5, 3, 6>>, <<9, 5, 8, 7>>, <<9, 5, 8, 8>>, <<9, 5, 8, 9>>, <<9, 7, 1, 6>>,
      <<9, 7, 3, 6>>, <<9, 7, 3, 8>>, <<9, 7, 3, 9>>, <<9, 8, 1, 6>>, <<9, 8, 1, 8>>,
      <<9, 8, 1, 9>>, <<9, 8, 3, 7>>, <<9, 8, 3, 8>>, <<9, 8, 3, 9>>, <<9, 8, 8, 7>>,
      <<9, 8, 8, 8>>, <<9, 8, 8, 9>>, <<9, 9, 8, 6>>, <<9, 10, 8, 6>>
    }

RoundedUpOne ==
    {
      <<2, 5, 1, 7>>, <<2, 5, 1, 8>>, <<2, 5, 3, 9>>, <<2, 5, 8, 6>>, <<2, 5, 8, 7>>,
      <<2, 8, 1, 6>>, <<6, 5, 1, 7>>, <<6, 5, 1, 8>>
    }

RoundedDownOne ==
    {
      <<2, 7, 1, 9>>, <<2, 7, 3, 6>>, <<5, 5, 1, 9>>
    }

RoundedDownTwo ==
    {
      <<2, 9, 3, 7>>, <<2, 9, 3, 8>>, <<5, 7, 1, 7>>, <<5, 7, 1, 8>>, <<5, 7, 1, 9>>,
      <<5, 7, 3, 6>>, <<5, 7, 3, 7>>, <<5, 7, 8, 6>>, <<5, 7, 8, 7>>, <<5, 7, 8, 8>>,
      <<5, 7, 8, 9>>, <<6, 7, 1, 7>>, <<6, 7, 1, 8>>, <<6, 7, 8, 6>>, <<9, 9, 3, 7>>,
      <<9, 9, 3, 8>>, <<9, 9, 3, 9>>, <<9, 10, 3, 7>>, <<9, 10, 3, 8>>
    }

\* The rounding of the float total, in half units in the last place.
TotalRounding(scores) ==
    LET t == <<scores.safety, scores.success_likelihood, scores.cost, scores.determinism>>
    IN  CASE t \in RoundedUpFour -> 4
          [] t \in RoundedUpTwo -> 2
          [] t \in RoundedUpOne -> 1
          [] t \in RoundedDownOne -> -1
          [] t \in RoundedDownTwo -> -2
          [] OTHER -> 0

\* scores.get(key, default); scores holds the four keys _score_idea sets.
ScoresGet(scores, key, default) ==
    IF key \in DOMAIN scores THEN scores[key] ELSE default

\* JudgeEngine._generate_rationale(idea, scores): the number printed after
\* "Scored" (in thousandths, before the two-decimal formatting) and the
\* phrases that follow it.
GenerateRationale(scores) ==
    [stated  |-> ScoresGet(scores, "total_score", 0),
     phrases |-> (IF scores.safety < 5 THEN <<"High risk approach.">>
                  ELSE IF scores.safety > 8 THEN <<"Safe approach.">> ELSE <<>>)
                 \o (IF scores.success_likelihood > 7 THEN <<"Strong success indicators.">>
                     ELSE IF scores.success_likelihood < 4 THEN <<"Low success probability.">>
                     ELSE <<>>)
                 \o (IF scores.cost < 5 THEN <<"High cost/time investment.">> ELSE <<>>)]

\* One entry of scored_ideas.  The entry's 'idea' (idea.to_dict()) is kept
\* as the idea's id; its fields are those of the idea with that id.
\* total_score is the total in thousandths and total_round its rounding.
ScoredEntry(idea, iss, info) ==
    LET scores == ScoreIdea(idea, iss, info)
    IN  [idea_id |-> idea.id, scores |-> scores, total_score |-> TotalScore(scores),
         total_round |-> TotalRounding(scores),
         rationale |-> GenerateRationale(scores)]

\* a >= b on the float totals of two entries.
TotalNotBelow(a, b) ==
    \/ a.total_score > b.total_score
    \/ a.total_score = b.total_score /\ a.total_round >= b.total_round

\* Variant of the sort that places an entry before the entries of equal
\* total.
RECURSIVE InsertByScoreBeforeEquals(_, _)
InsertByScoreBeforeEquals(sorted, e) ==
    IF sorted = <<>> THEN <<e>>
    ELSE IF TotalNotBelow(Head(sorted), e) /\ ~TotalNotBelow(e, Head(sorted))
         THEN <<Head(sorted)>> \o InsertByScoreBeforeEquals(Tail(sorted), e)
         ELSE <<e>> \o sorted

\* list.sort(key=total_score, reverse=True) is stable: an entry is placed
\* behind every earlier entry whose total is not smaller than its own.
RECURSIVE InsertByScore(_, _)
InsertByScore(sorted, e) ==
    IF sorted = <<>> THEN <<e>>
    ELSE IF TotalNotBelow(Head(sorted), e)
         THEN <<Head(sorted)>> \o InsertByScore(Tail(sorted), e)
         ELSE <<e>> \o sorted

RECURSIVE SortByScoreDesc(_)
SortByScoreDesc(entries) ==
    IF entries = <<>> THEN <<>>
    ELSE InsertByScore(SortByScoreDesc(SubSeq(entries, 1, Len(entries) - 1)),
                       entries[Len(entries)])

\* The for loop of judge_ideas: scored_ideas before the sort.
ScoredIdeas(idea_list, iss, info) ==
    [k \in 1..Len(idea_list) |-> ScoredEntry(idea_list[k], iss, info)]

\* Inputs of the judge when several ideas are ranked together.
JudgeRisks == {"low", "medium", "high"}
JudgeCategories == {"wifi", "general"}
JudgeChecks ==
    { <<>>,
      << <<"n","m","c","l","i">>, <<"S","y","s","t","e","m","c","t","l">> >> }
JudgeFixes ==
    { <<>>,
      << <<"R","e","b","o","o","t">> >>,
      << <<"r","e","b","o","o","t">>, <<"r","e","i","n","s","t","a","l","l">> >> }
JudgeIssues == { <<"W","i","F","i"," ","o","f","f">>, <<"s","l","o","w">> }
JudgeDistros == { <<"U","b","u","n","t","u">>, <<"A","r","c","h">> }

\* Inputs of the judge when a single idea is scored.
ScoreRisks == {"low", "medium", "high", "unknown"}
ScoreCategories == {"wifi", "dns", "network", "general"}
ScoreChecks ==
    { <<>>,
      << <<"N","M","C","L","I">> >>,
      << <<"i","p"," ","a">>, <<"s","y","s","t","e","m","c","t","l"," ","x">> >>,
      << <<"n","m","c","l","i">>, <<"S","y","s","t","e","m","c","t","l">> >> }
ScoreFixes ==
    { <<>>,
      << <<"R","e","b","o","o","t">> >>,
      << <<"r","e","i","n","s","t","a","l","l">> >>,
      << <<"r","e","b","o","o","t">>, <<"r","e","i","n","s","t","a","l","l">> >>,
      << <<"u","p">>, <<"d","o","w","n">> >> }
ScoreIssues ==
    { <<"W","i","F","i"," ","o","f","f">>, <<"n","o"," ","D","N","S">>,
      <<"I","n","t","e","r","f","a","c","e">>, <<"s","l","o","w">> }
ScoreDistros == { <<"U","b","u","n","t","u">>, <<"A","r","c","h">>, <<>> }

InitJudge ==
    /\ pc = "judge_input"
    /\ ExecIdle
    /\ JudgeIdle
    /\ ServiceIdle
    /\ BrainstormIdle

\* The caller adds an idea to the list it will have judged; id is the
\* idea's identity (Idea.id), here its position in the request.
AddIdea(risk, category, checks, fixes) ==
    /\ pc = "judge_input"
    /\ Len(ideas_in) < MaxIdeas
    /\ ideas_in' = Append(ideas_in,
                          [id |-> Len(ideas_in) + 1, risk |-> risk, category |-> category,
                           checks |-> checks, fixes |-> fixes])
    /\ UNCHANGED <<pc, issue, system_info, ranked, execVars>>
    /\ UNCHANGED <<replyVars, parseVars, genVars>>
    /\ UNCHANGED serviceVars

\* JudgeEngine.judge_ideas(ideas, issue), with the system info it reads
JudgeIdeas(iss, distro) ==
    /\ pc = "judge_input"
    /\ issue' = iss
    /\ system_info' = [distro |-> distro]
    /\ \E scored_ideas \in {ScoredIdeas(ideas_in, iss, [distro |-> distro])} :
          ranked' = SortByScoreDesc(scored_ideas)
    /\ pc' = "judged"
    /\ UNCHANGED <<ideas_in, execVars, replyVars, parseVars, genVars>>
    /\ UNCHANGED serviceVars

\* JudgeEngine.judge_ideas([idea], issue): a single idea is judged.
JudgeOne(risk, category, checks, fixes, iss, distro) ==
    /\ pc = "judge_input"
    /\ ideas_in = <<>>
    /\ \E idea \in {[id |-> 1, risk |-> risk, category |-> category,
                      checks |-> checks, fixes |-> fixes]} :
          /\ ideas_in' = <<idea>>
          /\ ranked' = SortByScoreDesc(ScoredIdeas(<<idea>>, iss, [distro |-> distro]))
    /\ issue' = iss
    /\ system_info' = [distro |-> distro]
    /\ pc' = "judged"
    /\ UNCHANGED <<execVars, replyVars, parseVars, genVars>>
    /\ UNCHANGED serviceVars

NextJudge ==
    \/ \E risk \in JudgeRisks, category \in JudgeCategories,
          checks \in JudgeChecks, fixes \in JudgeFixes :
            AddIdea(risk, category, checks, fixes)
    \/ \E iss \in JudgeIssues, distro \in JudgeDistros : JudgeIdeas(iss, distro)

SpecJudge == InitJudge /\ [][NextJudge]_vars

NextScore ==
    \E risk \in ScoreRisks, category \in ScoreCategories, checks \in ScoreChecks,
       fixes \in ScoreFixes, iss \in ScoreIssues, distro \in ScoreDistros :
         JudgeOne(risk, category, checks, fixes, iss, distro)

SpecScore == InitJudge /\ [][NextScore]_vars

(***************************************************************************)
(* Claims about JudgeEngine (C7 under SpecJudge, C8 under SpecScore).      *)
(***************************************************************************)
\* The position in the ranked output of the idea with identity id.
RankOf(id) == CHOOSE k \in 1..Len(ranked) : ranked[k].idea_id = id

\* Ideas a and b agree on category, checks and fixes; a is low, b high risk.
SameButRisk(a, b) ==
    /\ a.category = b.category /\ a.checks = b.checks /\ a.fixes = b.fixes
    /\ a.risk = "low" /\ b.risk = "high"

\* C7: of two ideas judged together that agree on category, checks and
\* fixes and differ in risk (one low, one high), the low-risk idea has the
\* strictly greater total_score and comes first in the ranked output,
\* whichever order they were passed in.
C7_LowRiskOutranksHighRisk ==
    pc = "judged" =>
        \A i, j \in 1..Len(ideas_in) :
            SameButRisk(ideas_in[i], ideas_in[j]) =>
                /\ ranked[RankOf(i)].total_score > ranked[RankOf(j)].total_score
                /\ RankOf(i) < RankOf(j)

\* Witness of C7: the high-risk idea was passed first and the low-risk
\* twin second, and the ranking put the low-risk one on top.
C7_Witness ==
    /\ pc = "judged" /\ Len(ideas_in) = 2
    /\ SameButRisk(ideas_in[2], ideas_in[1])
    /\ ranked[1].idea_id = 2 /\ ranked[2].idea_id = 1
    /\ ranked[1].total_score = ranked[2].total_score + 210

\* C24: judge_ideas returns exactly one entry per input idea, ordered by
\* total_score non-increasing, and entries of equal total_score keep their
\* relative input order.
C24_StablePermutationByScore ==
    pc = "judged" =>
        /\ Len(ranked) = Len(ideas_in)
        /\ \A i \in 1..Len(ideas_in) :
              \E k \in 1..Len(ranked) :
                  /\ ranked[k].idea_id = i
                  /\ \A m \in 1..Len(ranked) : ranked[m].idea_id = i => m = k
        /\ \A k, m \in 1..Len(ranked) :
              k < m =>
                  /\ TotalNotBelow(ranked[k], ranked[m])
                  /\ TotalNotBelow(ranked[m], ranked[k])
                        => ranked[k].idea_id < ranked[m].idea_id

\* Witness of C24: two ideas that differ but have equal totals were judged
\* and came out in their input order.
C24_Witness ==
    /\ pc = "judged" /\ Len(ideas_in) = 2
    /\ ideas_in[1] # ideas_in[2]
    /\ ranked[1].idea_id = 1 /\ ranked[2].idea_id = 2
    /\ ranked[1].total_score = ranked[2].total_score
    /\ ranked[1].total_round = ranked[2].total_round

\* C25: success_likelihood is min(1.0, 0.5 + b1 + b2 + b3), with b1 = 0.3
\* if the OS is Ubuntu-like and some check contains nmcli, b2 = 0.2 if some
\* check contains systemctl (whatever the OS), and b3 = 0.2 if the idea's
\* category matches the issue text.
C25_LikelihoodBoostsIndependent ==
    pc = "judged" =>
        \A k \in 1..Len(ranked) :
            \E idea \in {ideas_in[ranked[k].idea_id]} :
                ranked[k].scores.success_likelihood =
                    Min(10,
                        5
                        + (IF Contains(ubuntu, Lower(system_info.distro))
                              /\ AnyLowerContains(nmcli, idea.checks) THEN 3 ELSE 0)
                        + (IF AnyLowerContains(systemctl, idea.checks) THEN 2 ELSE 0)
                        + (IF CategoryMatches(idea.category, Lower(issue)) THEN 2 ELSE 0))

\* C26: the score stated in an entry's rationale ("Scored X/1.0") is the
\* entry's total_score rounded to two decimals, and the phrases after it
\* are a function of the safety, success_likelihood and cost tiers.
C26_RationaleStatesTotal ==
    pc = "judged" =>
        \A k \in 1..Len(ranked) :
            /\ (ranked[k].rationale.stated + 5) \div 10 = (ranked[k].total_score + 5) \div 10
            /\ ranked[k].rationale.phrases = GenerateRationale(ranked[k].scores).phrases

InUnit(tenths) == 0 <= tenths /\ tenths <= 10

\* C8: for every judged idea with risk low, medium or high, each of the
\* four sub-scores lies in [0, 1] and so does total_score, which is
\* 0.3*safety + 0.4*success_likelihood + 0.2*cost + 0.1*determinism.
C8_ScoresInUnitInterval ==
    pc = "judged" =>
        \A k \in 1..Len(ranked) :
            ideas_in[ranked[k].idea_id].risk \in {"low", "medium", "high"} =>
                /\ InUnit(ranked[k].scores.safety)
                /\ InUnit(ranked[k].scores.success_likelihood)
                /\ InUnit(ranked[k].scores.cost)
                /\ InUnit(ranked[k].scores.determinism)
                /\ ranked[k].total_score =
                       30 * ranked[k].scores.safety
                       + 40 * ranked[k].scores.success_likelihood
                       + 20 * ranked[k].scores.cost
                       + 10 * ranked[k].scores.determinism
                /\ 0 <= ranked[k].total_score /\ ranked[k].total_score <= 1000

\* Witness of C8: an idea whose three likelihood boosts add up to 1.2 was
\* judged; its success_likelihood is 1.0 and its total 0.92.
C8_Witness ==
    /\ pc = "judged"
    /\ \E k \in 1..Len(ranked) :
          /\ RawLikelihood(ideas_in[ranked[k].idea_id], issue, system_info) = 12
          /\ ranked[k].scores.success_likelihood = 10
          /\ ranked[k].total_score = 920

(***************************************************************************)
(* BrainstormEngine: the LLM reply and its tolerant parsing                *)
(*                                                                         *)
(* The reply is a sequence of lexemes.  "{" "}" "[" "]" "," are the JSON   *)
(* punctuation characters, "NL" a newline (the whitespace of the model),   *)
(* "1." a run of digits followed by a dot, "FENCE" a code fence (three backquotes), "json" the  *)
(* fence's language tag, "7" a JSON number, "text" a word of prose,        *)
(* "hyp=A" the member "hypothesis": "A" (likewise "hyp=B"), and "ideas:"   *)
(* the key "ideas" with its colon, to be followed by a value.  Further     *)
(* member lexemes: "risk=high" and "risk=extreme" (a string the model      *)
(* invents), "why=W", "checks=null" and "checks=[c]".                      *)
(***************************************************************************)
NL == "NL"

PairTokens ==
    {"hyp=A", "hyp=B", "risk=high", "risk=extreme", "why=W", "checks=null", "checks=[c]"}

\* The key a member lexeme stands for.
PairKey(tok) ==
    CASE tok \in {"hyp=A", "hyp=B"} -> "hypothesis"
      [] tok \in {"risk=high", "risk=extreme"} -> "risk"
      [] tok = "why=W" -> "why"
      [] OTHER -> "checks"

\* The string value of a member lexeme whose value is a string.
PairVal(tok) ==
    CASE tok = "hyp=A" -> "A"
      [] tok = "hyp=B" -> "B"
      [] tok = "risk=high" -> "high"
      [] tok = "risk=extreme" -> "extreme"
      [] OTHER -> "W"

\* JSON values: every value is a record of the same shape.
JNull           == [kind |-> "null", s |-> "",  members |-> <<>>, items |-> <<>>]
JStr(str)       == [kind |-> "str",  s |-> str, members |-> <<>>, items |-> <<>>]
JNum            == [kind |-> "num",  s |-> "7", members |-> <<>>, items |-> <<>>]
JList(items)    == [kind |-> "list", s |-> "",  members |-> <<>>, items |-> items]
JDict(members)  == [kind |-> "dict", s |-> "",  members |-> members, items |-> <<>>]

\* The value a member lexeme stands for.
PairJson(tok) ==
    CASE tok = "checks=null" -> JNull
      [] tok = "checks=[c]" -> JList(<<JStr("c")>>)
      [] OTHER -> JStr(PairVal(tok))

\* Python truth of a decoded value: None, "", [] and {} are falsy.
Truthy(v) ==
    CASE v.kind = "null" -> FALSE
      [] v.kind = "str"  -> v.s # ""
      [] v.kind = "list" -> v.items # <<>>
      [] v.kind = "dict" -> v.members # <<>>
      [] OTHER -> TRUE

\* Result of a parse attempt: ok, the value, and the lexemes left over.
ParseFail    == [ok |-> FALSE, val |-> JNum, rest |-> <<>>]
ParseOk(v, r) == [ok |-> TRUE, val |-> v, rest |-> r]

\* Skip JSON whitespace.
RECURSIVE SkipWs(_)
SkipWs(t) == IF t # <<>> /\ Head(t) = NL THEN SkipWs(Tail(t)) ELSE t

\* str.strip()
RECURSIVE StripRight(_)
StripRight(t) ==
    IF t # <<>> /\ t[Len(t)] = NL THEN StripRight(SubSeq(t, 1, Len(t) - 1)) ELSE t

Strip(t) == StripRight(SkipWs(t))

\* The JSON decoder: a value, then the members of an object (after "{" or
\* ","), then the items of an array (after "[" or ",").
RECURSIVE ParseValue(_), ParseMembers(_, _), ParseItems(_, _)
ParseValue(t) ==
    LET u == SkipWs(t) IN
    IF u = <<>> THEN ParseFail
    ELSE CASE Head(u) = "7" -> ParseOk(JNum, Tail(u))
           [] Head(u) = "{" ->
                (LET w == SkipWs(Tail(u)) IN
                 IF w # <<>> /\ Head(w) = "}" THEN ParseOk(JDict(<<>>), Tail(w))
                 ELSE ParseMembers(w, <<>>))
           [] Head(u) = "[" ->
                (LET w == SkipWs(Tail(u)) IN
                 IF w # <<>> /\ Head(w) = "]" THEN ParseOk(JList(<<>>), Tail(w))
                 ELSE ParseItems(w, <<>>))
           [] OTHER -> ParseFail

ParseMembers(t, acc) ==
    LET u == SkipWs(t)
        \* one member: a "key": "string" lexeme, or "ideas": followed by a value
        m == IF u = <<>> THEN ParseFail
             ELSE IF Head(u) \in PairTokens
                  THEN ParseOk([key |-> PairKey(Head(u)), val |-> PairJson(Head(u))],
                               Tail(u))
             ELSE IF Head(u) = "ideas:"
                  THEN (LET v == ParseValue(Tail(u)) IN
                        IF v.ok THEN ParseOk([key |-> "ideas", val |-> v.val], v.rest)
                        ELSE ParseFail)
             ELSE ParseFail
    IN  IF ~m.ok THEN ParseFail
        ELSE LET w == SkipWs(m.rest) IN
             IF w = <<>> THEN ParseFail
             ELSE IF Head(w) = "," THEN ParseMembers(Tail(w), Append(acc, m.val))
             ELSE IF Head(w) = "}" THEN ParseOk(JDict(Append(acc, m.val)), Tail(w))
             ELSE ParseFail

ParseItems(t, acc) ==
    LET v == ParseValue(t) IN
    IF ~v.ok THEN ParseFail
    ELSE LET w == SkipWs(v.rest) IN
         IF w = <<>> THEN ParseFail
         ELSE IF Head(w) = "," THEN ParseItems(Tail(w), Append(acc, v.val))
         ELSE IF Head(w) = "]" THEN ParseOk(JList(Append(acc, v.val)), Tail(w))
         ELSE ParseFail

\* json.loads(text): one value and nothing but whitespace after it;
\* ok = FALSE stands for the exception json.loads raises.
JsonLoads(t) ==
    LET r == ParseValue(t) IN
    IF r.ok /\ SkipWs(r.rest) = <<>> THEN r ELSE ParseFail

\* dict.get(key): present, and the value of the last member with that key.
HasKey(obj, key) == \E k \in 1..Len(obj.members) : obj.members[k].key = key

GetKey(obj, key) ==
    LET k == CHOOSE k \in 1..Len(obj.members) :
                 /\ obj.members[k].key = key
                 /\ \A j \in (k + 1)..Len(obj.members) : obj.members[j].key # key
    IN  obj.members[k].val

\* obj.get(key, default) for the string-valued fields of an idea
GetStr(obj, key, default) ==
    IF HasKey(obj, key) THEN GetKey(obj, key).s ELSE default

\* obj.get(key, default) for the fields that hold any decoded value
GetVal(obj, key, default) ==
    IF HasKey(obj, key) THEN GetKey(obj, key) ELSE default

\* Idea.__init__: checks and fixes go through "or []"; confidence in tenths.
IdeaInit(hypothesis, category, why, checks, fixes, risk, confidence) ==
    [hypothesis |-> hypothesis,
     category   |-> category,
     why        |-> why,
     checks     |-> IF Truthy(checks) THEN checks ELSE JList(<<>>),
     fixes      |-> IF Truthy(fixes) THEN fixes ELSE JList(<<>>),
     risk       |-> risk,
     confidence |-> confidence]

\* The defaults of Idea.__init__: risk = "low", confidence = 0.5.
IdeaDefaultRisk == "low"
IdeaDefaultConfidence == 5

\* Idea(hypothesis, category, why): checks, fixes, risk and confidence
\* left to their defaults.
BareIdea(hypothesis, category, why) ==
    IdeaInit(hypothesis, category, why, JNull, JNull,
             IdeaDefaultRisk, IdeaDefaultConfidence)

\* Variant of to_idea whose risk default is the constructor's.
ToIdeaConstructorDefaults(obj) ==
    IdeaInit(GetStr(obj, "hypothesis", "Unknown hypothesis"),
             GetStr(obj, "category", "general"),
             GetStr(obj, "why", "No reasoning provided"),
             GetVal(obj, "checks", JList(<<>>)),
             GetVal(obj, "fixes", JList(<<>>)),
             GetStr(obj, "risk", IdeaDefaultRisk),
             IdeaDefaultConfidence)

\* to_idea(obj)
ToIdea(obj) ==
    IdeaInit(GetStr(obj, "hypothesis", "Unknown hypothesis"),
             GetStr(obj, "category", "general"),
             GetStr(obj, "why", "No reasoning provided"),
             GetVal(obj, "checks", JList(<<>>)),
             GetVal(obj, "fixes", JList(<<>>)),
             GetStr(obj, "risk", "medium"),
             IdeaDefaultConfidence)

\* for item in items: if isinstance(item, dict): ideas.append(to_idea(item))
RECURSIVE DictItemsToIdeas(_)
DictItemsToIdeas(items) ==
    IF items = <<>> THEN <<>>
    ELSE (IF Head(items).kind = "dict" THEN <<ToIdea(Head(items))>> ELSE <<>>)
         \o DictItemsToIdeas(Tail(items))

\* The ideas a decoded JSON document holds: a list of objects, an object
\* with an "ideas" list, or a single object.
IdeasOfJson(data) ==
    IF data.kind = "list" THEN DictItemsToIdeas(data.items)
    ELSE IF data.kind = "dict"
         THEN IF HasKey(data, "ideas") /\ GetKey(data, "ideas").kind = "list"
              THEN DictItemsToIdeas(GetKey(data, "ideas").items)
              ELSE <<ToIdea(data)>>
    ELSE <<>>

\* try: json.loads(text) ... except Exception: no ideas
IdeasOfText(t) ==
    LET r == JsonLoads(t) IN IF r.ok THEN IdeasOfJson(r.val) ELSE <<>>

\* Index of the first occurrence of tok in t at or after position from, or 0.
RECURSIVE FindFrom(_, _, _)
FindFrom(t, tok, from) ==
    IF from > Len(t) THEN 0
    ELSE IF t[from] = tok THEN from
    ELSE FindFrom(t, tok, from + 1)

\* 1) Direct JSON parse of the whole response.
JsonStrategy(t) == IdeasOfText(t)

\* 2) fence_pattern.findall(text), scanning from position i, each block
\* stripped, decoded, and its ideas appended.
RECURSIVE FenceScan(_, _)
FenceScan(t, i) ==
    IF i > Len(t) THEN <<>>
    ELSE LET body == IF t[i] # "FENCE" THEN 0
                     ELSE IF i + 1 <= Len(t) /\ t[i + 1] = NL THEN i + 2
                     ELSE IF i + 2 <= Len(t) /\ t[i + 1] = "json" /\ t[i + 2] = NL
                          THEN i + 3
                     ELSE 0
             close == IF body = 0 THEN 0 ELSE FindFrom(t, "FENCE", body)
         IN  IF close = 0 THEN FenceScan(t, i + 1)
             ELSE IdeasOfText(Strip(SubSeq(t, body, close - 1)))
                  \o FenceScan(t, close + 1)

FenceStrategy(t) == FenceScan(t, 1)

\* First position at or after i that holds no whitespace (Len(t)+1 if none).
RECURSIVE SkipWsFrom(_, _)
SkipWsFrom(t, i) ==
    IF i <= Len(t) /\ t[i] = NL THEN SkipWsFrom(t, i + 1) ELSE i

\* ^ under re.MULTILINE
AtLineStart(t, i) == i = 1 \/ t[i - 1] = NL

\* A decoded match of the numbered pattern: kept only if it is an object.
IdeaOfObjectText(t) ==
    LET r == JsonLoads(t) IN
    IF r.ok /\ r.val.kind = "dict" THEN <<ToIdea(r.val)>> ELSE <<>>

\* 3) numbered_pattern.findall(text), scanning from position i:
\* ^\d+\.\s*(\{.*?\}) captures from the "{" to the nearest "}".
RECURSIVE NumberedScan(_, _)
NumberedScan(t, i) ==
    IF i > Len(t) THEN <<>>
    ELSE LET open == IF AtLineStart(t, i) /\ t[i] = "1." THEN SkipWsFrom(t, i + 1) ELSE 0
             close == IF open = 0 \/ open > Len(t) THEN 0
                      ELSE IF t[open] # "{" THEN 0
                      ELSE FindFrom(t, "}", open + 1)
         IN  IF close = 0 THEN NumberedScan(t, i + 1)
             ELSE IdeaOfObjectText(SubSeq(t, open, close)) \o NumberedScan(t, close + 1)

NumberedStrategy(t) == NumberedScan(t, 1)

\* Variant of the balanced-brace loop that does not empty buf after a
\* candidate.
RECURSIVE BraceScanKeepsBuf(_, _, _, _)
BraceScanKeepsBuf(t, i, depth, buf) ==
    IF i > Len(t) THEN <<>>
    ELSE LET ch == t[i]
             d1 == IF ch = "{" THEN depth + 1 ELSE depth
             b1 == IF d1 > 0 THEN Append(buf, ch) ELSE buf
             d2 == IF ch = "}" THEN d1 - 1 ELSE d1
         IN  IF ch = "}" /\ d2 = 0 /\ b1 # <<>>
             THEN IdeaOfObjectText(b1) \o BraceScanKeepsBuf(t, i + 1, d2, b1)
             ELSE BraceScanKeepsBuf(t, i + 1, d2, b1)

\* 4) The balanced-brace loop from position i on, with the loop's depth
\* and buf.
RECURSIVE BraceScan(_, _, _, _)
BraceScan(t, i, depth, buf) ==
    IF i > Len(t) THEN <<>>
    ELSE LET ch == t[i]
             d1 == IF ch = "{" THEN depth + 1 ELSE depth
             b1 == IF d1 > 0 THEN Append(buf, ch) ELSE buf
             d2 == IF ch = "}" THEN d1 - 1 ELSE d1
         IN  IF ch = "}" /\ d2 = 0 /\ b1 # <<>>
             THEN IdeaOfObjectText(b1) \o BraceScan(t, i + 1, d2, <<>>)
             ELSE BraceScan(t, i + 1, d2, b1)

BraceStrategy(t) == BraceScan(t, 1, 0, <<>>)

\* 5) The fallback idea.
FallbackIdea ==
    IdeaInit("Generic troubleshooting approach",
             "general",
             "LLM response could not be parsed into structured ideas",
             JList(<<JStr("echo 'Manual analysis required'")>>),
             JList(<<JStr("Analyze the issue manually")>>),
             "low",
             IdeaDefaultConfidence)

\* The state of the parse: the list ideas and the strategies applied.
\* Strategy 1 runs unconditionally; each later one only under "if not ideas".
StageJson(t) == [ideas |-> JsonStrategy(t), tried |-> <<"json">>]

StageFence(t, st) ==
    IF st.ideas = <<>>
    THEN [ideas |-> FenceStrategy(t), tried |-> Append(st.tried, "fence")]
    ELSE st

\* Variant of the numbered-list stage without its "if not ideas" guard.
StageNumberedUnguarded(t, st) ==
    [ideas |-> st.ideas \o NumberedStrategy(t), tried |-> Append(st.tried, "numbered")]

StageNumbered(t, st) ==
    IF st.ideas = <<>>
    THEN [ideas |-> NumberedStrategy(t), tried |-> Append(st.tried, "numbered")]
    ELSE st

StageBrace(t, st) ==
    IF st.ideas = <<>>
    THEN [ideas |-> BraceStrategy(t), tried |-> Append(st.tried, "brace")]
    ELSE st

\* Variant of the last stage that appends no fallback idea.
StageFallbackSkipped(t, st) == st

StageFallback(t, st) ==
    IF st.ideas = <<>>
    THEN [ideas |-> <<FallbackIdea>>, tried |-> Append(st.tried, "fallback")]
    ELSE st

\* BrainstormEngine._parse_ideas_response(response, issue)
ParseIdeasResponse(t) ==
    LET s1 == StageJson(t)
        s2 == StageFence(t, s1)
        s3 == StageNumbered(t, s2)
        s4 == StageBrace(t, s3)
    IN  StageFallback(t, s4)

Max(a, b) == IF a > b THEN a ELSE b

\* Variant of the final slice that returns every parsed idea.
PySliceAll(seq, n) == seq

\* ideas[:n] with Python's slice rules: a negative n counts from the end.
PySlice(seq, n) ==
    LET stop == IF n >= 0 THEN Min(n, Len(seq)) ELSE Max(Len(seq) + n, 0)
    IN  SubSeq(seq, 1, stop)

\* num_predict = max(512, n * 120)
NumPredict(n) == Max(512, n * 120)

\* Variant of the temperature lookup whose default is 0.0.
TemperatureDefaultZero(creativity) ==
    CASE creativity = 0 -> 0
      [] creativity = 1 -> 3
      [] creativity = 2 -> 7
      [] creativity = 3 -> 10
      [] OTHER -> 0

\* temperature_map.get(creativity, 0.3), in tenths.
Temperature(creativity) ==
    CASE creativity = 0 -> 0
      [] creativity = 1 -> 3
      [] creativity = 2 -> 7
      [] creativity = 3 -> 10
      [] OTHER -> 3

\* Chunks of reply text.
ObjA == <<"{", "hyp=A", "}">>
ObjB == <<"{", "hyp=B", "}">>
ObjNested == <<"{", "hyp=A", ",", "ideas:", "{", "}", "}">>
FencedA == <<"FENCE", "json", NL, "{", "hyp=A", "}", NL, "FENCE">>

\* The vocabulary of each style of reply.
StyleChunks(sty) ==
    CASE sty = "json"     -> { <<"[">>, <<"]">>, ObjA \o <<",">>, ObjB, <<"7", ",">>, <<"7">> }
      [] sty = "wrapped"  -> { <<"{", "ideas:">>, <<"}">>, <<"[">>, <<"]">>, ObjA }
      [] sty = "fenced"   -> { FencedA, <<"FENCE", NL>>, <<"FENCE">>, ObjB, <<"text">>, <<NL>> }
      [] sty = "numbered" -> { <<"1.">>, <<NL>>, ObjA, ObjB, ObjNested, <<"text">> }
      [] sty = "prose"    -> { <<"text">>, <<"{">>, <<"}">>, <<"hyp=A">>, ObjB }
      [] sty = "fields"   -> { <<"{">>, <<"}">>, <<"hyp=A", ",">>, <<"risk=high">>,
                               <<"risk=extreme">>, <<"checks=null">>, <<"checks=[c]">>,
                               <<",", "why=W">> }
      [] OTHER            -> {}

Styles == {"json", "wrapped", "fenced", "numbered", "prose"}

\* The values of n a caller passes (the API forwards the request's n as is).
NArgs == -1..3

InitReply ==
    /\ pc = "reply"
    /\ ExecIdle
    /\ JudgeIdle
    /\ ServiceIdle
    /\ style \in Styles
    /\ chunks = 0
    /\ response = <<>>
    /\ ideas = <<>>
    /\ tried = <<>>
    /\ n_arg = 0
    /\ creativity_arg = 1
    /\ llm_request = <<>>
    /\ result = <<>>

\* The LLM collaborator's reply grows by one chunk.
Emit(ch) ==
    /\ pc = "reply"
    /\ chunks < MaxChunks
    /\ chunks' = chunks + 1
    /\ response' = response \o ch
    /\ UNCHANGED <<pc, style, execVars, judgeVars, parseVars, genVars>>
    /\ UNCHANGED serviceVars

\* _parse_ideas_response is entered: ideas = [] and strategy 1.
ParseJson ==
    /\ pc = "reply"
    /\ ideas' = StageJson(response).ideas
    /\ tried' = StageJson(response).tried
    /\ pc' = "fence"
    /\ UNCHANGED <<execVars, judgeVars, replyVars, genVars>>
    /\ UNCHANGED serviceVars

\* One later stage of the cascade.
ParseStage(at, next, st) ==
    /\ pc = at
    /\ ideas' = st.ideas
    /\ tried' = st.tried
    /\ pc' = next
    /\ UNCHANGED <<execVars, judgeVars, replyVars, genVars>>
    /\ UNCHANGED serviceVars

ParseState == [ideas |-> ideas, tried |-> tried]

ParseFence    == ParseStage("fence", "numbered", StageFence(response, ParseState))
ParseNumbered == ParseStage("numbered", "brace", StageNumbered(response, ParseState))
ParseBrace    == ParseStage("brace", "fallback", StageBrace(response, ParseState))
ParseFallback == ParseStage("fallback", "parsed", StageFallback(response, ParseState))

NextParse ==
    \/ \E ch \in StyleChunks(style) : Emit(ch)
    \/ ParseJson
    \/ ParseFence
    \/ ParseNumbered
    \/ ParseBrace
    \/ ParseFallback

SpecParse == InitReply /\ [][NextParse]_vars

\* BrainstormEngine.generate_ideas(issue, n, creativity): one get_response
\* call, the parse of its reply, and the slice ideas[:n].
GenerateIdeasFrom(parsed, creativity, n) ==
    /\ pc = "reply"
    /\ n_arg' = n
    /\ creativity_arg' = creativity
    /\ llm_request' = Append(llm_request,
                             [temperature |-> Temperature(creativity),
                              num_predict |-> NumPredict(n)])
    /\ ideas' = parsed.ideas
    /\ tried' = parsed.tried
    /\ result' = PySlice(parsed.ideas, n)
    /\ pc' = "generated"
    /\ UNCHANGED <<execVars, judgeVars, replyVars>>
    /\ UNCHANGED serviceVars

GenerateIdeasWith(creativity, n) ==
    /\ pc = "reply"
    /\ \E parsed \in {ParseIdeasResponse(response)} :
          GenerateIdeasFrom(parsed, creativity, n)

\* generate_ideas(issue, n) with the default creativity = 1.
GenerateIdeas ==
    /\ pc = "reply"
    /\ \E parsed \in {ParseIdeasResponse(response)} :
          \E n \in NArgs : GenerateIdeasFrom(parsed, 1, n)

NextGenerate ==
    \/ \E ch \in StyleChunks(style) : Emit(ch)
    \/ GenerateIdeas

SpecGenerate == InitReply /\ [][NextGenerate]_vars

\* Replies made of one object with some of the fields of an idea.
InitIdea ==
    /\ pc = "reply"
    /\ ExecIdle
    /\ JudgeIdle
    /\ ServiceIdle
    /\ style = "fields"
    /\ chunks = 0
    /\ response = <<>>
    /\ ideas = <<>>
    /\ tried = <<>>
    /\ n_arg = 0
    /\ creativity_arg = 1
    /\ llm_request = <<>>
    /\ result = <<>>

\* Idea(hypothesis, category, why), as a caller that names no risk builds it.
ConstructBareIdea(hypothesis) ==
    /\ pc = "reply"
    /\ response = <<>>
    /\ ideas' = <<BareIdea(hypothesis, "general", "W")>>
    /\ pc' = "constructed"
    /\ UNCHANGED <<tried, execVars, judgeVars, replyVars, genVars>>
    /\ UNCHANGED serviceVars

NextIdea ==
    \/ \E ch \in StyleChunks(style) : Emit(ch)
    \/ GenerateIdeas
    \/ \E hypothesis \in {"A", "B"} : ConstructBareIdea(hypothesis)

SpecIdea == InitIdea /\ [][NextIdea]_vars

\* The parameters of the LLM request: short replies, every creativity and
\* the values of n at which the token budget leaves its floor.
MaxShortReply == 2

Creativities == -1..5

RequestNs == {-1, 0, 1, 4, 5, 10}

EmitShort(ch) == chunks < MaxShortReply /\ Emit(ch)

NextRequest ==
    \/ \E ch \in StyleChunks(style) : EmitShort(ch)
    \/ \E creativity \in Creativities, n \in RequestNs : GenerateIdeasWith(creativity, n)

SpecRequest == InitReply /\ [][NextRequest]_vars

(***************************************************************************)
(* Claims about BrainstormEngine (C4, C5, C6 under SpecParse; C2, C3 under *)
(* SpecGenerate).                                                          *)
(***************************************************************************)
\* C2: for every integer n and every LLM response, generate_ideas returns
\* a list with 1 <= len(result) <= n: never more than n ideas and never an
\* empty list.
C2_BetweenOneAndN ==
    pc = "generated" => 1 <= Len(result) /\ Len(result) <= n_arg

IsObject(v) == v.kind = "dict"

\* The response decodes as a top-level JSON array.
IsTopLevelArray(t) == JsonLoads(t).ok /\ JsonLoads(t).val.kind = "list"

\* The object elements of the array, in array order.
ArrayObjects(t) == SelectSeq(JsonLoads(t).val.items, IsObject)

Unparsable(t) ==
    /\ JsonStrategy(t) = <<>>
    /\ FenceStrategy(t) = <<>>
    /\ NumberedStrategy(t) = <<>>
    /\ BraceStrategy(t) = <<>>

\* C4: the parse never returns an empty list, and when none of the four
\* strategies yields an idea it returns exactly one Idea with hypothesis
\* "Generic troubleshooting approach", category "general" and risk "low".
C4_UnparsableGivesOneFallback ==
    pc = "parsed" =>
        /\ ideas # <<>>
        /\ Unparsable(response) =>
              /\ Len(ideas) = 1
              /\ ideas[1].hypothesis = "Generic troubleshooting approach"
              /\ ideas[1].category = "general"
              /\ ideas[1].risk = "low"

\* Witness of C4: a reply that contains braces but no decodable object was
\* parsed down to the fallback.
C4_Witness ==
    /\ pc = "parsed"
    /\ \E k \in 1..Len(response) : response[k] = "{"
    /\ Unparsable(response)
    /\ tried[Len(tried)] = "fallback"
    /\ ideas = <<FallbackIdea>>

StrategyOrder == <<"json", "fence", "numbered", "brace", "fallback">>

\* What the k-th strategy finds in the text on its own.
Yield(k, t) ==
    CASE k = 1 -> JsonStrategy(t)
      [] k = 2 -> FenceStrategy(t)
      [] k = 3 -> NumberedStrategy(t)
      [] k = 4 -> BraceStrategy(t)
      [] k = 5 -> <<FallbackIdea>>

\* C5: the strategies are applied in the fixed order json, fence, numbered,
\* brace, fallback; a strategy is applied only if every earlier one yielded
\* nothing; the parse ends with the first strategy that yields an idea; and
\* the ideas held are the yield of one strategy alone.
C5_CascadeStopsAtFirstYield ==
    /\ Len(tried) <= 5
    /\ \A k \in 1..Len(tried) : tried[k] = StrategyOrder[k]
    /\ \A j \in 1..(Len(tried) - 1) : Yield(j, response) = <<>>
    /\ tried # <<>> => ideas = Yield(Len(tried), response)
    /\ pc = "parsed" =>
          /\ tried # <<>>
          /\ ideas # <<>>

\* Witness of C5: the numbered-list strategy found an idea, the parse ended
\* there, and the brace scan, had it run, would have found more.
C5_Witness ==
    /\ pc = "parsed"
    /\ tried = <<"json", "fence", "numbered">>
    /\ ideas = NumberedStrategy(response)
    /\ Len(BraceStrategy(response)) > Len(ideas)

\* A text made only of numbered objects: each item is a "<digits>." marker,
\* optional whitespace and one valid JSON object.
RECURSIVE NumberedItems(_, _)
NumberedItems(t, acc) ==
    LET u == SkipWs(t) IN
    IF u = <<>> THEN [ok |-> TRUE, objs |-> acc]
    ELSE IF Head(u) # "1." THEN [ok |-> FALSE, objs |-> <<>>]
    ELSE LET v == ParseValue(Tail(u)) IN
         IF v.ok /\ v.val.kind = "dict"
         THEN NumberedItems(v.rest, Append(acc, v.val))
         ELSE [ok |-> FALSE, objs |-> <<>>]

\* C6: on a text of numbered valid JSON objects that neither the whole-JSON
\* nor the fenced-block strategy can parse, the numbered-list strategy
\* extracts one idea per numbered object, in order of appearance (exactly 2
\* for two objects).
C6_OneIdeaPerNumberedObject ==
    (pc = "parsed" /\ Len(tried) >= 3) =>
        \E form \in {NumberedItems(response, <<>>)} :
            (form.ok /\ form.objs # <<>>) =>
                /\ Len(NumberedStrategy(response)) = Len(form.objs)
                /\ \A i \in 1..Len(form.objs) :
                      NumberedStrategy(response)[i] = ToIdea(form.objs[i])

\* The nesting depth after each character of t: "{" counted up, "}"
\* counted down, starting from depth.
RECURSIVE DepthsFrom(_, _, _)
DepthsFrom(t, i, depth) ==
    IF i > Len(t) THEN <<>>
    ELSE LET d == depth + (IF t[i] = "{" THEN 1 ELSE IF t[i] = "}" THEN -1 ELSE 0)
         IN  <<d>> \o DepthsFrom(t, i + 1, d)

\* The first position after a where the depth is 0 again; 0 if there is none.
RECURSIVE SpanEnd(_, _)
SpanEnd(d, a) ==
    IF a >= Len(d) THEN 0
    ELSE IF d[a + 1] = 0 THEN a + 1
    ELSE SpanEnd(d, a + 1)

\* t[a] is a "{" that takes the depth from 0 to 1.
IsSpanStart(t, d, a) == t[a] = "{" /\ d[a] = 1

\* Every span from such a "{" to the "}" that returns the depth to 0, from
\* position a on, decoded on its own, in text order; a span that is not a
\* JSON object contributes nothing.
RECURSIVE SpanIdeasFrom(_, _, _)
SpanIdeasFrom(t, d, a) ==
    IF a > Len(t) THEN <<>>
    ELSE IF IsSpanStart(t, d, a) /\ SpanEnd(d, a) > 0
         THEN IdeaOfObjectText(SubSeq(t, a, SpanEnd(d, a)))
              \o SpanIdeasFrom(t, d, SpanEnd(d, a) + 1)
         ELSE SpanIdeasFrom(t, d, a + 1)

\* C20: when the earlier strategies yield nothing, the balanced-brace scan
\* yields, in text order, one idea for every span from a "{" that takes the
\* depth from 0 to 1 up to the "}" that returns it to 0 and that decodes to
\* an object; a span that does not decode is skipped and the spans after it
\* are still extracted.
C20_BraceScanYieldsTopSpansInOrder ==
    Len(tried) >= 4 =>
        \E d \in {DepthsFrom(response, 1, 0)} :
            \E spans \in {SpanIdeasFrom(response, d, 1)} :
                /\ Len(tried) = 4 => ideas = spans
                /\ Len(tried) = 5 => spans = <<>>

\* Witness of C20: two objects embedded in prose were scanned and gave
\* exactly those two ideas, in text order.
C20_Witness ==
    /\ pc = "parsed"
    /\ tried = <<"json", "fence", "numbered", "brace">>
    /\ response = ObjA \o <<"text">> \o ObjB
    /\ Len(ideas) = 2
    /\ ideas[1].hypothesis = "A" /\ ideas[2].hypothesis = "B"

\* The position of the first "{" of t; 0 if there is none.
FirstOpen(t) ==
    IF \E k \in 1..Len(t) : t[k] = "{"
    THEN CHOOSE k \in 1..Len(t) : t[k] = "{" /\ \A j \in 1..(k - 1) : t[j] # "{"
    ELSE 0

\* C21: during the balanced-brace scan the nesting depth is never negative,
\* and a well-formed top-level JSON object that follows an unmatched "}" is
\* still extracted as an idea.
C21_DepthNeverNegative ==
    Len(tried) >= 4 =>
        \E d \in {DepthsFrom(response, 1, 0)} :
            /\ \A i \in 1..Len(d) : d[i] >= 0
            /\ \E a \in {FirstOpen(response)} :
                  \A b \in (a + 1)..Len(response) :
                      (a > 0 /\ IdeaOfObjectText(SubSeq(response, a, b)) # <<>>)
                      => \E k \in 1..Len(ideas) :
                            <<ideas[k]>> = IdeaOfObjectText(SubSeq(response, a, b))

\* The string field of the idea is the object's member, or the default.
FieldFromObject(obj, key, got, default) ==
    got = (IF HasKey(obj, key) THEN GetKey(obj, key).s ELSE default)

\* C22 as stated: a parsed object that lacks some idea fields yields one
\* Idea whose present fields are the object's and whose absent fields are
\* "Unknown hypothesis", "general", "No reasoning provided", [], [] and
\* "medium"; an Idea built without a risk argument has risk "low".
C22_PresentFieldsTakenVerbatim ==
    /\ pc = "generated" =>
          \E r \in {JsonLoads(response)} :
              (r.ok /\ r.val.kind = "dict") =>
                  /\ Len(ideas) = 1
                  /\ FieldFromObject(r.val, "hypothesis", ideas[1].hypothesis, "Unknown hypothesis")
                  /\ FieldFromObject(r.val, "category", ideas[1].category, "general")
                  /\ FieldFromObject(r.val, "why", ideas[1].why, "No reasoning provided")
                  /\ FieldFromObject(r.val, "risk", ideas[1].risk, "medium")
                  /\ ideas[1].checks = GetVal(r.val, "checks", JList(<<>>))
                  /\ ideas[1].fixes = GetVal(r.val, "fixes", JList(<<>>))
    /\ pc = "constructed" => ideas[1].risk = "low"

\* C22, amended: as above, except that checks and fixes are the object's
\* only when its value is truthy; a present null (or other falsy value)
\* becomes [] like an absent one.
C22_AbsentFieldsTakeParseDefaults ==
    /\ pc = "generated" =>
          \E r \in {JsonLoads(response)} :
              (r.ok /\ r.val.kind = "dict") =>
                  /\ Len(ideas) = 1
                  /\ FieldFromObject(r.val, "hypothesis", ideas[1].hypothesis, "Unknown hypothesis")
                  /\ FieldFromObject(r.val, "category", ideas[1].category, "general")
                  /\ FieldFromObject(r.val, "why", ideas[1].why, "No reasoning provided")
                  /\ FieldFromObject(r.val, "risk", ideas[1].risk, "medium")
                  /\ ideas[1].checks =
                        (IF HasKey(r.val, "checks") /\ Truthy(GetKey(r.val, "checks"))
                         THEN GetKey(r.val, "checks") ELSE JList(<<>>))
                  /\ ideas[1].fixes =
                        (IF HasKey(r.val, "fixes") /\ Truthy(GetKey(r.val, "fixes"))
                         THEN GetKey(r.val, "fixes") ELSE JList(<<>>))
    /\ pc = "constructed" =>
          /\ ideas[1].risk = "low"
          /\ ideas[1].risk # ToIdea(JDict(<<>>)).risk

\* Witness of C22: an object with a hypothesis and a null checks member and
\* nothing else was parsed into one idea with the remaining defaults.
C22_Witness ==
    /\ pc = "generated"
    /\ response = <<"{", "hyp=A", ",", "checks=null", "}">>
    /\ Len(ideas) = 1
    /\ ideas[1].hypothesis = "A"
    /\ ideas[1].risk = "medium"
    /\ ideas[1].why = "No reasoning provided"
    /\ ideas[1].checks = JList(<<>>)

\* C23: every Idea returned by generate_ideas has risk low, medium or high
\* and a confidence between 0 and 1 (held in tenths).
C23_RiskAndConfidenceInRange ==
    pc = "generated" =>
        \A k \in 1..Len(result) :
            /\ result[k].risk \in {"low", "medium", "high"}
            /\ result[k].confidence >= 0 /\ result[k].confidence <= 10

\* C13: the parameters of the one LLM request are a fixed function of
\* (creativity, n): temperature 0.0, 0.3, 0.7, 1.0 for creativity 0, 1, 2,
\* 3 and 0.3 for every other integer; num_predict is the larger of 512 and
\* 120*n (512 for n = 1, 600 for n = 5, 1200 for n = 10).
C13_RequestParameters ==
    pc = "generated" =>
        /\ Len(llm_request) = 1
        /\ llm_request[1].temperature =
               (IF creativity_arg = 0 THEN 0
                ELSE IF creativity_arg = 2 THEN 7
                ELSE IF creativity_arg = 3 THEN 10
                ELSE 3)
        /\ llm_request[1].num_predict >= 512
        /\ llm_request[1].num_predict >= 120 * n_arg
        /\ llm_request[1].num_predict \in {512, 120 * n_arg}
        /\ n_arg = 1 => llm_request[1].num_predict = 512
        /\ n_arg = 5 => llm_request[1].num_predict = 600
        /\ n_arg = 10 => llm_request[1].num_predict = 1200

\* Witness of C13: creativity 5 and n = 10 gave temperature 0.3 and a
\* budget of 1200 tokens.
C13_Witness ==
    /\ pc = "generated"
    /\ creativity_arg = 5 /\ n_arg = 10
    /\ llm_request = <<[temperature |-> 3, num_predict |-> 1200]>>


\* One call of either operation, from either starting point.
InitNoRetry == InitExec \/ InitReply

NextNoRetry == NextExec \/ NextRequest

SpecNoRetry == InitNoRetry /\ [][NextNoRetry]_vars

\* C14: there is no retry: a generate_ideas call invokes the LLM
\* collaborator exactly once and an execute_safely call spawns at most one
\* subprocess (exactly one unless the command is refused), whatever the
\* outcome; before the call nothing has been invoked.
C14_NoRetry ==
    /\ pc = "generated" => Len(llm_request) = 1
    /\ pc = "executed" => shell_calls = (IF proc = "none" THEN 0 ELSE 1)
    /\ pc \in {"input", "analyzed", "reply"} => (Len(llm_request) = 0 /\ shell_calls = 0)
    /\ pc \in {"input", "analyzed", "executed"} => Len(llm_request) = 0
    /\ pc \in {"reply", "generated"} => shell_calls = 0

\* Witness of C14: a medium-risk command run in safe mode failed with an
\* OS error after a single spawn.
C14_Witness ==
    /\ pc = "executed" /\ safe_mode
    /\ exec_result.analysis.risk_level = "medium"
    /\ proc = "oserror"
    /\ exec_result.executed = FALSE
    /\ shell_calls = 1


(***************************************************************************)
(* api_probe: running an idea's whitelisted checks                         *)
(***************************************************************************)
MaxChecks == 4

\* safe_commands
safe_commands ==
    << <<"n","m","c","l","i">>,
       <<"i","p"," ","a","d","d","r">>,
       <<"i","p"," ","r","o","u","t","e">>,
       <<"r","f","k","i","l","l"," ","l","i","s","t">>,
       <<"s","y","s","t","e","m","c","t","l"," ","s","t","a","t","u","s">>,
       <<"j","o","u","r","n","a","l","c","t","l">>,
       <<"d","i","g">>,
       <<"n","s","l","o","o","k","u","p">> >>

\* any(cmd in check.lower() for cmd in safe_commands)
Whitelisted(check) ==
    \E k \in 1..Len(safe_commands) : Contains(safe_commands[k], Lower(check))

\* Variant of the gate before subprocess.run without the whitelist test.
ProbeAllowedAnyCheck(check) ==
    AnalyzeCommand(check).risk_level = "low"

\* The two conditions under which a check reaches subprocess.run.
ProbeAllowed(check) ==
    Whitelisted(check) /\ AnalyzeCommand(check).risk_level = "low"

\* evidence[check] = value: a later assignment replaces an earlier one.
SetEvidence(ev, check, kind) ==
    {e \in ev : e.check # check} \union {[check |-> check, kind |-> kind]}

\* The loop "for check in idea['checks'][:3]" from index i on; outcomes[i]
\* is what subprocess.run does for the i-th check if it is spawned.
RECURSIVE ProbeLoop(_, _, _, _, _)
ProbeLoop(checks, i, outcomes, ev, spawned) ==
    IF i > Len(checks) THEN [evidence |-> ev, spawned |-> spawned]
    ELSE IF ProbeAllowed(checks[i])
         THEN ProbeLoop(checks, i + 1, outcomes,
                        SetEvidence(ev, checks[i],
                                    IF outcomes[i] = "ok" THEN "result" ELSE "error"),
                        Append(spawned, checks[i]))
         ELSE ProbeLoop(checks, i + 1, outcomes, ev, spawned)

\* The check strings of a request: "nmcli d", "DIG a", "sudo dig",
\* "dig>x;mkfs" and "cat x".
CHK_NMCLI == <<"n","m","c","l","i"," ","d">>
CHK_UPPER == <<"D","I","G"," ","a">>
CHK_SUDO == <<"s","u","d","o"," ","d","i","g">>
CHK_DANGER == <<"d","i","g",">","x",";","m","k","f","s">>
CHK_CAT == <<"c","a","t"," ","x">>

ProbeCheckMenu ==
    { CHK_NMCLI, CHK_UPPER, CHK_SUDO, CHK_DANGER, CHK_CAT }

InitProbe ==
    /\ pc = "probe_input"
    /\ ExecIdle
    /\ JudgeIdle
    /\ BrainstormIdle
    /\ ServiceIdle

\* The caller appends a check to the idea of the request.
AddCheck(check) ==
    /\ pc = "probe_input"
    /\ Len(probe_checks) < MaxChecks
    /\ probe_checks' = Append(probe_checks, check)
    /\ UNCHANGED <<pc, evidence, probe_spawned, coreVars, detectVars, classifyVars, clientVars, serverVars, retrieveVars, renderVars>>

\* POST /api/ideas/probe with one idea; has_checks: the idea has a 'checks'
\* key; run_checks: the request's run_checks flag.
ApiProbe(has_checks, run_checks, outcomes) ==
    /\ pc = "probe_input"
    /\ has_checks \/ probe_checks = <<>>
    /\ \E done \in {IF run_checks /\ has_checks
                    THEN ProbeLoop(PySlice(probe_checks, 3), 1, outcomes, {}, <<>>)
                    ELSE [evidence |-> {}, spawned |-> <<>>]} :
          /\ evidence' = done.evidence
          /\ probe_spawned' = done.spawned
    /\ pc' = "probed"
    /\ UNCHANGED <<probe_checks, coreVars, detectVars, classifyVars, clientVars, serverVars, retrieveVars, renderVars>>

NextProbe ==
    \/ \E check \in ProbeCheckMenu : AddCheck(check)
    \/ \E has_checks, run_checks \in BOOLEAN, outcomes \in [1..3 -> {"ok", "error"}] :
          ApiProbe(has_checks, run_checks, outcomes)

SpecProbe == InitProbe /\ [][NextProbe]_vars

MaxSegments == 3

\* lines[:50]
ScanLimit == 50

\* ^[a-zA-Z0-9_.-]+@[a-zA-Z0-9_.-]+:~?\$ at the start of the stripped line
IsPrompt(line) == line # <<>> /\ line[1] \in {"user@host:~$", "root@box:$"}

\* (ERROR|WARN|INFO|TRACE|DEBUG)[ :] : a level followed by a colon, or by
\* the space before the next word.
IsLog(line) ==
    \E i \in 1..Len(line) :
        \/ line[i] \in {"ERROR:", "WARN:"}
        \/ line[i] \in {"ERROR", "INFO"} /\ i < Len(line)

\* (Exception|Traceback|stack trace), re.IGNORECASE
IsError(line) ==
    \E i \in 1..Len(line) : line[i] \in {"Traceback", "traceback", "EXCEPTION"}

\* [/\\]|:\\|==|:: anywhere in the line
HasPathOrOperator(line) ==
    \E i \in 1..Len(line) : line[i] \in {"/etc/x", "a==b", "user@host:~$"}

\* len(s.split()) > 4 and not re.search(...)
IsFreeText(line) == Len(line) > 4 /\ ~HasPathOrOperator(line)

\* signals after the loop over the lines from index i on (in halves).
RECURSIVE ScanLines(_, _, _)
ScanLines(lines, i, signals) ==
    IF i > Len(lines) THEN signals
    ELSE ScanLines(lines, i + 1,
           [shell     |-> signals.shell + (IF IsPrompt(lines[i]) THEN 4 ELSE 0),
            log       |-> signals.log + (IF IsLog(lines[i]) THEN 2 ELSE 0),
            error     |-> signals.error + (IF IsError(lines[i]) THEN 4 ELSE 0),
            free_text |-> signals.free_text + (IF IsFreeText(lines[i]) THEN 1 ELSE 0)])

NoSignals == [shell |-> 0, log |-> 0, error |-> 0, free_text |-> 0]

\* The counters of a text: the loop over lines[:50].
Signals(lines) == ScanLines(SubSeq(lines, 1, Min(ScanLimit, Len(lines))), 1, NoSignals)

SignalOrder == <<"shell", "log", "error", "free_text">>

\* max(signals.items(), key=...)[0]: the first key with the maximal value.
MaxLabel(signals) ==
    LET k == CHOOSE k \in 1..4 :
                 /\ \A j \in 1..4 : signals[SignalOrder[j]] <= signals[SignalOrder[k]]
                 /\ \A j \in 1..(k - 1) : signals[SignalOrder[j]] < signals[SignalOrder[k]]
    IN  SignalOrder[k]

SignalSum(signals) == signals.shell + signals.log + signals.error + signals.free_text

\* Variant of the divisor that is never below 1.0 (two halves).
DetectTotalFloored(signals) == Max(2, SignalSum(signals))

\* total = sum(signals.values()) or 1 (in halves: 1.0 is two halves)
DetectTotal(signals) == IF SignalSum(signals) = 0 THEN 2 ELSE SignalSum(signals)

\* not text or not text.strip()
IsBlankText(lines) == \A i \in 1..Len(lines) : lines[i] = <<>>

\* InputDetector.detect(text)
Detect(lines) ==
    IF IsBlankText(lines) THEN [label |-> "empty", num |-> 1, den |-> 1]
    ELSE \* min(1.0, signals[label] / total)
         LET signals == Signals(lines)
             label == MaxLabel(signals)
             total == DetectTotal(signals)
         IN  IF signals[label] > total
             THEN [label |-> label, num |-> 1, den |-> 1]
             ELSE [label |-> label, num |-> signals[label], den |-> total]

\* The lines a text is made of.
BlankLine == <<>>
PromptLine == <<"user@host:~$", "ls">>
LogLine == <<"ERROR", "disk", "full">>
BareLevelLine == <<"ERROR">>
TraceLine == <<"traceback", "WARN:">>
FreeLine == <<"my", "wifi", "keeps", "dropping", "out">>
PathLine == <<"my", "wifi", "keeps", "dropping", "/etc/x">>

DetectLines == {BlankLine, PromptLine, LogLine, BareLevelLine, TraceLine, FreeLine, PathLine}

\* How many times a line is repeated.
DetectRepeats == {1, ScanLimit}

\* count copies of line
RECURSIVE Repeat(_, _)
Repeat(line, count) == IF count = 0 THEN <<>> ELSE <<line>> \o Repeat(line, count - 1)

\* The text the segments stand for.
RECURSIVE TextOf(_)
TextOf(segs) ==
    IF segs = <<>> THEN <<>>
    ELSE Repeat(Head(segs).line, Head(segs).count) \o TextOf(Tail(segs))

InitDetect ==
    /\ pc = "detect_input"
    /\ ExecIdle
    /\ JudgeIdle
    /\ BrainstormIdle
    /\ ServiceIdle

\* The caller appends count copies of a line to the text.
AddLines(line, count) ==
    /\ pc = "detect_input"
    /\ Len(segments) < MaxSegments
    /\ segments' = Append(segments, [line |-> line, count |-> count])
    /\ UNCHANGED <<pc, detect_result, probeVars, coreVars, classifyVars, clientVars, serverVars, retrieveVars, renderVars>>

\* InputDetector.detect(text)
DetectInput ==
    /\ pc = "detect_input"
    /\ detect_result' = Detect(TextOf(segments))
    /\ pc' = "detected"
    /\ UNCHANGED <<segments, probeVars, coreVars, classifyVars, clientVars, serverVars, retrieveVars, renderVars>>

NextDetect ==
    \/ \E line \in DetectLines, count \in DetectRepeats : AddLines(line, count)
    \/ DetectInput

SpecDetect == InitDetect /\ [][NextDetect]_vars

\* The text cut after its 50th line.
FirstLines(lines) == SubSeq(lines, 1, Min(50, Len(lines)))

\* The label is the first counter, in the order shell, log, error,
\* free_text, that holds the maximum of the counters of the first 50 lines.
LabelIsFirstMax(lines, label) ==
    \E sig \in {ScanLines(FirstLines(lines), 1, NoSignals)} :
        \E k \in 1..4 :
            /\ label = SignalOrder[k]
            /\ \A j \in 1..4 : sig[SignalOrder[j]] <= sig[label]
            /\ \A j \in 1..(k - 1) : sig[SignalOrder[j]] < sig[label]

\* C15 as stated: {empty, 1.0} exactly for blank texts; otherwise the label
\* is the first maximal counter and confidence = winning counter /
\* max(1, sum of the counters), in [0, 1]; lines after the 50th never
\* change the result.
C15_ConfidenceOverFlooredSum ==
    pc = "detected" =>
        \E lines \in {TextOf(segments)} :
            /\ (detect_result.label = "empty") <=> IsBlankText(lines)
            /\ detect_result.label = "empty" => detect_result.num = detect_result.den
            /\ ~IsBlankText(lines) =>
                  \E sig \in {Signals(lines)} :
                      /\ LabelIsFirstMax(lines, detect_result.label)
                      /\ detect_result.num * Max(2, SignalSum(sig))
                            = sig[detect_result.label] * detect_result.den
            /\ detect_result = Detect(FirstLines(lines))

\* C15: {empty, 1.0} exactly for blank texts; otherwise the label is the
\* first maximal counter of the first 50 lines and the confidence is the
\* winning counter divided by the sum of the counters (by 1 when the sum is
\* 0), which lies in [0, 1]; lines after the 50th do not change the result
\* of a text whose first 50 lines are not all blank.
C15_ConfidenceIsShareOfSum ==
    pc = "detected" =>
        \E lines \in {TextOf(segments)} :
            /\ (detect_result.label = "empty") <=> IsBlankText(lines)
            /\ detect_result.label = "empty" => detect_result.num = detect_result.den
            /\ 0 <= detect_result.num /\ detect_result.num <= detect_result.den
            /\ detect_result.den > 0
            /\ ~IsBlankText(lines) =>
                  \E sig \in {Signals(lines)} :
                      /\ LabelIsFirstMax(lines, detect_result.label)
                      /\ IF SignalSum(sig) = 0
                         THEN detect_result.num = 0
                         ELSE detect_result.num * SignalSum(sig)
                                 = sig[detect_result.label] * detect_result.den
            /\ ~IsBlankText(FirstLines(lines)) =>
                  detect_result = Detect(FirstLines(lines))
            /\ (IsBlankText(FirstLines(lines)) /\ ~IsBlankText(lines)) =>
                  (detect_result.label = "shell" /\ detect_result.num = 0)

\* Witness of C15: a text of one free-text line: free_text = 0.5 is the
\* only counter and the confidence is 0.5 / 0.5 = 1.0.
C15_Witness ==
    /\ pc = "detected"
    /\ TextOf(segments) = <<FreeLine>>
    /\ detect_result.label = "free_text"
    /\ detect_result.num = detect_result.den

(***************************************************************************)
(* CategoryClassifier in heuristic mode (no embedding model loaded)        *)
(*                                                                         *)
(* A score is a count of matching patterns; a normalized score is the      *)
(* fraction num/den.                                                       *)
(***************************************************************************)
MaxWords == 3

\* CATEGORIES / the keys of HEUR_PATTERNS, in dict order
CATEGORIES ==
    <<"power", "boot", "hardware", "physical", "software", "user", "network", "performance", "system">>

\* The alternatives of each label's pattern (ip\s+addr is IpSpaceAddr).
HEUR_PATTERNS ==
    [ power |->
       << <<"b","a","t","t","e","r","y">>,
          <<"c","h","a","r","g","e","r">>,
          <<"p","o","w","e","r">>,
          <<"t","u","r","n"," ","o","n">>,
          <<"w","o","n","'","t"," ","s","t","a","r","t">>,
          <<"d","e","a","d">>,
          <<"p","l","u","g">>,
          <<"c","h","a","r","g","e">>,
          <<"p","o","w","e","r"," ","b","u","t","t","o","n">>,
          <<"n","o"," ","l","i","g","h","t","s">>,
          <<"b","l","a","c","k"," ","s","c","r","e","e","n">> >>,
      boot |->
       << <<"b","o","o","t">>,
          <<"b","i","o","s">>,
          <<"g","r","u","b">>,
          <<"s","t","a","r","t","u","p">>,
          <<"w","o","n","'","t"," ","s","t","a","r","t">>,
          <<"b","l","u","e"," ","s","c","r","e","e","n">>,
          <<"k","e","r","n","e","l"," ","p","a","n","i","c">>,
          <<"p","o","s","t">>,
          <<"l","o","a","d","i","n","g">> >>,
      hardware |->
       << <<"r","a","m">>,
          <<"m","e","m","o","r","y">>,
          <<"d","i","s","k">>,
          <<"d","r","i","v","e">>,
          <<"m","o","t","h","e","r","b","o","a","r","d">>,
          <<"c","p","u">>,
          <<"f","a","n">>,
          <<"t","e","m","p","e","r","a","t","u","r","e">>,
          <<"b","e","e","p">>,
          <<"c","l","i","c","k","i","n","g">>,
          <<"h","a","r","d","w","a","r","e">> >>,
      physical |->
       << <<"d","r","o","p","p","e","d">>,
          <<"s","p","i","l","l">>,
          <<"l","i","q","u","i","d">>,
          <<"w","a","t","e","r">>,
          <<"c","o","f","f","e","e">>,
          <<"d","a","m","a","g","e">>,
          <<"c","r","a","c","k","e","d">>,
          <<"b","r","o","k","e","n">>,
          <<"t","r","u","c","k">>,
          <<"p","h","y","s","i","c","a","l">> >>,
      software |->
       << <<"d","r","i","v","e","r">>,
          <<"a","p","p","l","i","c","a","t","i","o","n">>,
          <<"p","r","o","g","r","a","m">>,
          <<"c","r","a","s","h">>,
          <<"f","r","e","e","z","e">>,
          <<"v","i","r","u","s">>,
          <<"m","a","l","w","a","r","e">>,
          <<"u","p","d","a","t","e">>,
          <<"i","n","s","t","a","l","l">>,
          <<"c","o","r","r","u","p","t">> >>,
      user |->
       << <<"h","o","w"," ","t","o">>,
          <<"d","o","n","'","t"," ","k","n","o","w">>,
          <<"c","o","n","f","u","s","e","d">>,
          <<"w","r","o","n","g">>,
          <<"n","o","t"," ","m","i","n","e">>,
          <<"t","o","y">>,
          <<"f","a","k","e">>,
          <<"e","x","p","e","c","t","e","d">>,
          <<"s","h","o","u","l","d">>,
          <<"s","u","p","p","o","s","e","d">> >>,
      network |->
       << <<"w","i","f","i">>,
          <<"w","l","a","n">>,
          <<"i","n","t","e","r","n","e","t">>,
          <<"n","e","t","w","o","r","k">>,
          <<"c","o","n","n","e","c","t","i","o","n">>,
          <<"d","n","s">>,
          <<"e","t","h","e","r","n","e","t">>,
          <<"g","a","t","e","w","a","y">>,
          <<"s","s","i","d">> >>,
      performance |->
       << <<"s","l","o","w">>,
          <<"l","a","g">>,
          <<"f","r","e","e","z","e">>,
          <<"h","a","n","g">>,
          <<"h","i","g","h"," ","c","p","u">>,
          <<"m","e","m","o","r","y">>,
          <<"s","w","a","p">>,
          <<"l","o","a","d">>,
          <<"i","o","w","a","i","t">>,
          <<"o","v","e","r","h","e","a","t">> >>,
      system |->
       << <<"k","e","r","n","e","l">>,
          <<"d","m","e","s","g">>,
          <<"j","o","u","r","n","a","l","c","t","l">>,
          <<"o","s","-","r","e","l","e","a","s","e">>,
          <<"p","a","c","k","a","g","e","s">>,
          <<"c","o","n","f","i","g","u","r","a","t","i","o","n">>,
          <<"s","e","t","t","i","n","g","s">> >> ]

\* ip\s+addr: "ip", one or more blanks, "addr"
RECURSIVE BlanksThen(_, _, _)
BlanksThen(s, i, word) ==
    IF i > Len(s) THEN FALSE
    ELSE IF s[i] = " " THEN BlanksThen(s, i + 1, word)
    ELSE /\ i + Len(word) - 1 <= Len(s)
         /\ \A j \in 1..Len(word) : s[i + j - 1] = word[j]

IpSpaceAddr(s) ==
    \E i \in 1..(Len(s) - 2) :
        /\ s[i] = "i" /\ s[i + 1] = "p" /\ s[i + 2] = " "
        /\ BlanksThen(s, i + 2, <<"a","d","d","r">>)

\* p.search(text) with re.I for the one pattern of a label
PatternMatches(cat, text) ==
    \E low \in {Lower(text)} :
        \/ \E k \in 1..Len(HEUR_PATTERNS[cat]) : Contains(HEUR_PATTERNS[cat][k], low)
        \/ cat = "network" /\ IpSpaceAddr(low)

\* s = sum(1.0 for p in pats if p.search(text))
RawScore(cat, text) == IF PatternMatches(cat, text) THEN 1 ELSE 0

\* scores before normalisation, in dict order
RawScores(text) ==
    [k \in 1..Len(CATEGORIES) |-> [label |-> CATEGORIES[k], score |-> RawScore(CATEGORIES[k], text)]]

RECURSIVE SumScores(_)
SumScores(scores) ==
    IF scores = <<>> THEN 0 ELSE Head(scores).score + SumScores(Tail(scores))

\* Variant of the sort that keeps the order of the dict.
SortScoresUnsorted(scores) == scores

\* sorted(scores, key=lambda kv: kv[1], reverse=True): stable, descending.
RECURSIVE InsertScore(_, _)
InsertScore(sorted, e) ==
    IF sorted = <<>> THEN <<e>>
    ELSE IF Head(sorted).score >= e.score
         THEN <<Head(sorted)>> \o InsertScore(Tail(sorted), e)
         ELSE <<e>> \o sorted

RECURSIVE SortScoresFrom(_, _)
SortScoresFrom(scores, k) ==
    IF k = 0 THEN <<>> ELSE InsertScore(SortScoresFrom(scores, k - 1), scores[k])

SortScoresDesc(scores) == SortScoresFrom(scores, Len(scores))

\* CategoryClassifier._heuristic_scores(text): (label, num, den) triples,
\* den being "total or 1".
HeuristicScores(text) ==
    LET raw == RawScores(text)
        total == IF SumScores(raw) = 0 THEN 1 ELSE SumScores(raw)
        sorted == SortScoresDesc(raw)
    IN  [k \in 1..Len(sorted) |->
            [label |-> sorted[k].label, num |-> sorted[k].score, den |-> total]]

\* not text or not text.strip()
IsBlankString(text) == \A i \in 1..Len(text) : text[i] = " "

\* CategoryClassifier.classify(text) with self._emb = None
Classify(text) ==
    IF IsBlankString(text)
    THEN [label |-> "system", num |-> 0, den |-> 1,
          candidates |-> <<[label |-> "system", num |-> 0, den |-> 1]>>]
    ELSE LET heur == HeuristicScores(text) IN
         [label |-> heur[1].label, num |-> heur[1].num, den |-> heur[1].den,
          candidates |-> PySlice(heur, 3)]

\* The pieces an issue text is put together from.
IssueWords ==
    { <<"W","i","F","i">>,
      <<" ">>,
      <<"s","l","o","w">>,
      <<"m","e","m","o","r","y">>,
      <<"I","P"," "," ","A","D","D","R">>,
      <<"x","y","z">>,
      <<"k","e","r","n","e","l"," ","p","a","n","i","c">> }

InitClassify ==
    /\ pc = "classify_input"
    /\ ExecIdle
    /\ JudgeIdle
    /\ BrainstormIdle
    /\ ServiceIdle

\* The caller extends the issue text.
AddWord(w) ==
    /\ pc = "classify_input"
    /\ word_count < MaxWords
    /\ word_count' = word_count + 1
    /\ classify_text' = classify_text \o w
    /\ UNCHANGED <<pc, prediction, embVars, probeVars, detectVars, coreVars, clientVars, serverVars, retrieveVars, renderVars>>

\* classifier.classify(text)
ClassifyText ==
    /\ pc = "classify_input"
    /\ prediction' = Classify(classify_text)
    /\ pc' = "classified"
    /\ UNCHANGED <<classify_text, word_count, embVars, probeVars, detectVars, coreVars, clientVars, serverVars, retrieveVars, renderVars>>

NextClassify ==
    \/ \E w \in IssueWords : AddWord(w)
    \/ ClassifyText

SpecClassify == InitClassify /\ [][NextClassify]_vars

\* The normalized score the claim gives a label: 1 per matching pattern,
\* divided by the total over all labels floored at 1.
ClaimedScoreNum(cat, text) == RawScore(cat, text)
ClaimedScoreDen(text) == Max(1, Cardinality({k \in 1..9 : PatternMatches(CATEGORIES[k], text)}))

\* C16: for a non-blank text, classify returns a label of the 9-label
\* taxonomy whose normalized pattern score is maximal, with that score as
\* confidence and the top 3 (label, score) pairs, in non-increasing score
\* order, as candidates; a text matching only the network pattern gives
\* 'network'; a blank text gives ('system', 0.0, [('system', 0.0)]).
C16_HeuristicTopLabel ==
    pc = "classified" =>
        IF IsBlankString(classify_text)
        THEN /\ prediction.label = "system" /\ prediction.num = 0
             /\ prediction.candidates = <<[label |-> "system", num |-> 0, den |-> 1]>>
        ELSE /\ prediction.label \in Range(CATEGORIES)
             /\ Len(CATEGORIES) = 9
             /\ prediction.den = ClaimedScoreDen(classify_text)
             /\ prediction.num = ClaimedScoreNum(prediction.label, classify_text)
             /\ \A k \in 1..9 :
                   ClaimedScoreNum(CATEGORIES[k], classify_text) <= prediction.num
             /\ Len(prediction.candidates) = 3
             /\ prediction.candidates[1].label = prediction.label
             /\ \A k \in 1..3 :
                   /\ prediction.candidates[k].num
                         = ClaimedScoreNum(prediction.candidates[k].label, classify_text)
                   /\ prediction.candidates[k].den = prediction.den
             /\ \A k \in 1..2 :
                   prediction.candidates[k].num >= prediction.candidates[k + 1].num
             /\ \A j, k \in 1..3 :
                   j # k => prediction.candidates[j].label # prediction.candidates[k].label
             /\ \A c \in Range(CATEGORIES) \ {prediction.candidates[k].label : k \in 1..3} :
                   ClaimedScoreNum(c, classify_text) <= prediction.candidates[3].num
             /\ ({c \in Range(CATEGORIES) : PatternMatches(c, classify_text)} = {"network"})
                   => (prediction.label = "network" /\ prediction.num = prediction.den)

\* Witness of C16: "WiFi slow" matches the network and the performance
\* pattern; network, seventh in the taxonomy, is on top with 0.5, then
\* performance with 0.5, then power with 0.
C16_Witness ==
    /\ pc = "classified"
    /\ classify_text = <<"W","i","F","i"," ","s","l","o","w">>
    /\ prediction.label = "network"
    /\ prediction.num = 1 /\ prediction.den = 2
    /\ prediction.candidates =
          << [label |-> "network", num |-> 1, den |-> 2],
             [label |-> "performance", num |-> 1, den |-> 2],
             [label |-> "power", num |-> 0, den |-> 2] >>

(***************************************************************************)
(* CategoryClassifier with the optional embedding provider                 *)
(***************************************************************************)
\* What loading sentence-transformers does in __init__: the import fails,
\* the model loads but encoding the labels raises, or both succeed.
EmbProviders == {"absent", "labels_fail", "ok"}

NotEmbedded == [kind |-> "unused", label |-> "none", num |-> 0, den |-> 1]

\* What the embedding path of one classify call does: encoding the query
\* raises, the similarity computation raises, or it yields a top label with
\* a cosine similarity, here -1, 0, 1/2 or 1 (num/den).
EmbOutcomes ==
    { [kind |-> "encode_raises", label |-> "none", num |-> 0, den |-> 1],
      [kind |-> "similarity_raises", label |-> "none", num |-> 0, den |-> 1] }
    \cup [kind : {"ok"}, label : {"user", "network"}, num : {-1, 0, 1, 2}, den : {2}]

\* __init__: self._emb is set only if the import, the model and the label
\* embedding all succeed.
EmbLoaded(provider) == provider = "ok"

\* The embedding branch of classify: conf = max(0.0, (top_score + 1) / 2)
EmbeddedPrediction(outcome) ==
    LET conf_num == Max(0, outcome.num + outcome.den)
        conf_den == 2 * outcome.den
    IN  [label |-> outcome.label, num |-> conf_num, den |-> conf_den,
         candidates |-> <<[label |-> outcome.label, num |-> outcome.num, den |-> outcome.den]>>]

\* Variant of classify whose embedding branch has no except clause.
ClassifyWithUncaught(text, loaded, outcome) ==
    IF IsBlankString(text) THEN Classify(text)
    ELSE IF loaded
         THEN IF outcome.kind = "ok" THEN EmbeddedPrediction(outcome)
              ELSE [label |-> "raised", num |-> 0, den |-> 1, candidates |-> <<>>]
         ELSE Classify(text)

\* CategoryClassifier.classify(text)
ClassifyWith(text, loaded, outcome) ==
    IF IsBlankString(text) THEN Classify(text)
    ELSE IF loaded /\ outcome.kind = "ok" THEN EmbeddedPrediction(outcome)
    ELSE Classify(text)

InitEmbed ==
    /\ pc = "classify_input"
    /\ ExecIdle
    /\ JudgeIdle
    /\ BrainstormIdle
    /\ ProbeIdle /\ DetectIdle /\ ClientIdle /\ ServerIdle /\ RetrieveIdle /\ RenderIdle
    /\ classify_text = <<>>
    /\ word_count = 0
    /\ prediction = [label |-> "none", num |-> 0, den |-> 1, candidates |-> <<>>]
    /\ emb_provider \in EmbProviders
    /\ emb_loaded = EmbLoaded(emb_provider)
    /\ emb_outcome = NotEmbedded

\* classifier.classify(text) on a classifier that may hold a provider
ClassifyEmbedded(outcome) ==
    /\ pc = "classify_input"
    /\ prediction' = ClassifyWith(classify_text, emb_loaded, outcome)
    /\ emb_outcome' = IF emb_loaded /\ ~IsBlankString(classify_text) THEN outcome ELSE NotEmbedded
    /\ pc' = "classified"
    /\ UNCHANGED <<classify_text, word_count, emb_provider, emb_loaded>>
    /\ UNCHANGED <<probeVars, detectVars, coreVars, clientVars, serverVars, retrieveVars, renderVars>>

MaxEmbedWords == 2

\* The pieces of the texts classified with a provider.
EmbedWords == { <<"W","i","F","i">>, <<" ">>, <<"x","y","z">> }

\* The caller extends the issue text.
AddEmbedWord(w) ==
    /\ pc = "classify_input"
    /\ word_count < MaxEmbedWords
    /\ word_count' = word_count + 1
    /\ classify_text' = classify_text \o w
    /\ UNCHANGED <<pc, prediction, embVars, probeVars, detectVars, coreVars, clientVars, serverVars, retrieveVars, renderVars>>

NextEmbed ==
    \/ \E w \in EmbedWords : AddEmbedWord(w)
    \/ \E outcome \in EmbOutcomes : ClassifyEmbedded(outcome)

SpecEmbed == InitEmbed /\ [][NextEmbed]_vars

\* C27: whenever the embedding path fails (provider absent, label embedding
\* failing at construction, query encoding or similarity raising), classify
\* raises nothing and returns what heuristic mode returns for the text.
C27_EmbeddingFailureFallsBack ==
    (pc = "classified" /\ (~emb_loaded \/ emb_outcome.kind # "ok")) =>
        prediction = Classify(classify_text)

\* Witness of C27: the provider was loaded, the similarity computation of
\* a query raised, and the heuristic prediction came back.
C27_Witness ==
    /\ pc = "classified"
    /\ emb_loaded
    /\ emb_outcome.kind = "similarity_raises"
    /\ classify_text = <<"W","i","F","i">>
    /\ prediction.label = "network"
    /\ prediction.num = 1 /\ prediction.den = 1

(***************************************************************************)
(* RoadNerdClient.add_to_context                                           *)
(***************************************************************************)
MaxCalls == 5

\* Values of max_context_items (an attribute callers set; 10 by default).
ContextCapacities == {0, 1, 2, 3, 10}

\* seq[-k:] with Python's slice rules: -0 is 0, so seq[-0:] is all of seq.
PyLastItems(seq, k) ==
    IF k <= 0 THEN SubSeq(seq, Min(Len(seq), -k) + 1, Len(seq))
    ELSE SubSeq(seq, Max(Len(seq) - k, 0) + 1, Len(seq))

\* user_input[:200]
ContentLength(len) == Min(len, 200)

\* The context after add_to_context appended item and trimmed.
AddedToContext(context, item, capacity) ==
    LET appended == Append(context, item) IN
    IF Len(appended) > capacity THEN PyLastItems(appended, capacity) ELSE appended

InitClient ==
    /\ pc = "client"
    /\ ExecIdle
    /\ JudgeIdle
    /\ BrainstormIdle
    /\ ProbeIdle /\ DetectIdle /\ ClassifyIdle /\ ServerIdle /\ RetrieveIdle /\ RenderIdle
    /\ conversation_context = <<>>
    /\ max_context_items \in ContextCapacities
    /\ added = <<>>

\* client.add_to_context(user_input, intent_info): user_input has input_len
\* characters and intent_info['intent'] is intent.
AddToContext(intent, input_len) ==
    /\ pc = "client"
    /\ Len(added) < MaxCalls
    /\ \E item \in {[id |-> Len(added), type |-> intent,
                     content_len |-> ContentLength(input_len)]} :
          /\ added' = Append(added, item)
          /\ conversation_context' =
                 AddedToContext(conversation_context, item, max_context_items)
    /\ UNCHANGED <<pc, max_context_items, probeVars, detectVars, classifyVars, coreVars, serverVars, retrieveVars, renderVars>>

NextClient ==
    \E intent \in {"information", "problem"}, input_len \in {6, 250} :
        AddToContext(intent, input_len)

SpecClient == InitClient /\ [][NextClient]_vars

InitServer ==
    /\ pc = "server"
    /\ ExecIdle
    /\ JudgeIdle
    /\ BrainstormIdle
    /\ ProbeIdle /\ DetectIdle /\ ClassifyIdle /\ ClientIdle /\ RetrieveIdle /\ RenderIdle
    /\ config_safe_mode \in BOOLEAN
    /\ configured_safe_mode = config_safe_mode
    /\ allow_force \in BOOLEAN
    /\ requests = [r \in Requests |-> NoRequest]

serverFrame == <<pc, coreVars, probeVars, detectVars, classifyVars, clientVars, retrieveVars, renderVars>>

\* No request is between its first and its last statement.
NoneInFlight == \A r \in Requests : requests[r].pc \in {"idle", "done"}

\* Lines 1462-1470: the request is read; a missing command ends it with
\* 400, otherwise original_safe_mode = CONFIG['safe_mode'].
Receive(r, command, force) ==
    /\ pc = "server"
    /\ requests[r].pc = "idle"
    /\ requests' = [requests EXCEPT ![r] =
          IF command.is_str /\ command.text = <<>>
          THEN [@ EXCEPT !.pc = "done", !.status = 400, !.force = force]
          ELSE [@ EXCEPT !.pc = "started", !.is_str = command.is_str,
                         !.command = command.text, !.force = force,
                         !.original = config_safe_mode]]
    /\ UNCHANGED <<config_safe_mode, configured_safe_mode, allow_force, serverFrame>>

\* Lines 1471-1475: a force request is refused with 403 unless
\* RN_ALLOW_FORCE is set, else CONFIG['safe_mode'] = False.
CheckForce(r) ==
    /\ pc = "server"
    /\ requests[r].pc = "started"
    /\ IF requests[r].force /\ ~allow_force
       THEN /\ requests' = [requests EXCEPT ![r].pc = "done", ![r].status = 403]
            /\ UNCHANGED config_safe_mode
       ELSE /\ requests' = [requests EXCEPT ![r].pc = "ready"]
            /\ config_safe_mode' = IF requests[r].force THEN FALSE ELSE config_safe_mode
    /\ UNCHANGED <<configured_safe_mode, allow_force, serverFrame>>

\* Line 1477: execute_safely(command, safe_mode=CONFIG['safe_mode']).  A
\* command that is not a string makes analyze_command raise (cmd.lower()),
\* which ends the request with a 500 before the restore statement.
Execute(r, outcome) ==
    /\ pc = "server"
    /\ requests[r].pc = "ready"
    /\ requests' = [requests EXCEPT ![r] =
          IF ~requests[r].is_str
          THEN [@ EXCEPT !.pc = "done", !.status = 500]
          ELSE LET res == ExecuteSafelyResult(requests[r].command, config_safe_mode, outcome)
               IN  [@ EXCEPT !.pc = "restoring",
                             !.ran_safe_mode = config_safe_mode,
                             !.executed = res.executed,
                             !.risk_level = res.analysis.risk_level]]
    /\ UNCHANGED <<config_safe_mode, configured_safe_mode, allow_force, serverFrame>>

\* Lines 1480-1482: CONFIG['safe_mode'] = original_safe_mode; return.
Restore(r) ==
    /\ pc = "server"
    /\ requests[r].pc = "restoring"
    /\ config_safe_mode' = requests[r].original
    /\ requests' = [requests EXCEPT ![r].pc = "done", ![r].status = 200]
    /\ UNCHANGED <<configured_safe_mode, allow_force, serverFrame>>

ServeStep(r) ==
    \/ CheckForce(r)
    \/ \E outcome \in SubprocessOutcomes : Execute(r, outcome)
    \/ Restore(r)

\* Requests handled on concurrent threads.
NextServer ==
    \E r \in Requests :
        \/ \E command \in ServerCommands, force \in BOOLEAN : Receive(r, command, force)
        \/ ServeStep(r)

SpecServer == InitServer /\ [][NextServer]_vars

\* Requests handled one after the other.
NextSequential ==
    \E r \in Requests :
        \/ \E command \in ServerCommands, force \in BOOLEAN :
              NoneInFlight /\ Receive(r, command, force)
        \/ ServeStep(r)

SpecSequential == InitServer /\ [][NextSequential]_vars

\* C18: under any interleaving of /api/execute requests, a request sent
\* with force = false runs execute_safely with the configured safe_mode,
\* and while the server is configured with safe mode on no high-risk
\* command of a non-force request is executed.
C18_NonForceUsesConfiguredSafeMode ==
    \A r \in Requests :
        (requests[r].pc = "restoring" \/ requests[r].status = 200)
        => (~requests[r].force =>
               /\ requests[r].ran_safe_mode = configured_safe_mode
               /\ (configured_safe_mode /\ requests[r].risk_level = "high")
                     => ~requests[r].executed)

\* C19: when requests are handled one after the other, after every request
\* CONFIG['safe_mode'] equals its value before the request, whatever the
\* outcome; a force request refused for lack of RN_ALLOW_FORCE executes
\* nothing.
C19_SafeModeRestoredAfterEveryRequest ==
    /\ NoneInFlight => config_safe_mode = configured_safe_mode
    /\ \A r \in Requests :
          requests[r].status = 403 => ~requests[r].executed

(***************************************************************************)
(* HybridRetriever.search                                                  *)
(*                                                                         *)
(* The corpus is a list of paragraphs of 64 to 600 characters; a snippet   *)
(* keeps the index of its paragraph in the corpus as its source.           *)
(***************************************************************************)
MaxQueryPieces == 3

\* Filler that brings a paragraph to the 64 characters the loader requires.
Filler == [i \in 1..64 |-> "."]

ParaWifi == <<"W","i","F","i"," ","D","N","S"," ","n","e","t","w","o","r","k"," ">> \o Filler
ParaZip == <<"z","i","p"," ","f","i","l","e"," ">> \o Filler
ParaKernel == <<"k","e","r","n","e","l"," ">> \o Filler

\* The corpora a retriever is constructed with.
Corpora ==
    { <<>>,
      <<ParaKernel, ParaZip, ParaWifi>>,
      <<ParaZip, ParaWifi, ParaZip>> }

\* The pieces a query is put together from.
QueryPieces == { <<"W","i","F","i">>, <<" ">>, <<"i","p">>, <<"d","n","s">> }

\* category_hint: None (the empty text) or a label.
SearchHints == { <<>>, <<"N","e","t","w","o","r","k">> }

SearchKs == {0, 1, 2, 5}

\* [a-zA-Z0-9_] after lower()
WordChars ==
    {"a","b","c","d","e","f","g","h","i","j","k","l","m","n","o","p","q","r","s","t",
     "u","v","w","x","y","z","0","1","2","3","4","5","6","7","8","9","_"}

\* re.findall(r"[a-zA-Z0-9_]+", text): the maximal runs of word characters
\* from position i on, cur being the run under way.
RECURSIVE FindWords(_, _, _)
FindWords(text, i, cur) ==
    IF i > Len(text) THEN (IF cur = <<>> THEN <<>> ELSE <<cur>>)
    ELSE IF text[i] \in WordChars THEN FindWords(text, i + 1, Append(cur, text[i]))
    ELSE (IF cur = <<>> THEN <<>> ELSE <<cur>>) \o FindWords(text, i + 1, <<>>)

\* HybridRetriever._tokenize(text)
Tokenize(text) == FindWords(Lower(text), 1, <<>>)

\* q_tokens: the query's tokens, plus category_hint.lower() if a hint is given
QueryTokens(q, category_hint) ==
    Tokenize(q) \o (IF category_hint # <<>> THEN <<Lower(category_hint)>> ELSE <<>>)

\* sum(2 if t in text_lower else 0 for t in q_tokens), from token i on
RECURSIVE SumRepeats(_, _, _)
SumRepeats(q_tokens, text_lower, i) ==
    IF i > Len(q_tokens) THEN 0
    ELSE (IF Contains(q_tokens[i], text_lower) THEN 2 ELSE 0)
         + SumRepeats(q_tokens, text_lower, i + 1)

\* Variant of the score that counts each distinct token once in both sums.
ParagraphScoreDistinctOnly(q_tokens, para) ==
    3 * Cardinality({t \in Range(q_tokens) : Contains(t, Lower(para))})

\* The score of one paragraph: the sum over q_tokens plus the sum over
\* set(q_tokens).
ParagraphScore(q_tokens, para) ==
    LET text_lower == Lower(para)
    IN  SumRepeats(q_tokens, text_lower, 1)
        + Cardinality({t \in Range(q_tokens) : Contains(t, text_lower)})

\* The scoring loop from document i on: a snippet for every paragraph whose
\* score is positive, in corpus order.
RECURSIVE ScoredFrom(_, _, _)
ScoredFrom(corpus, q_tokens, i) ==
    IF i > Len(corpus) THEN <<>>
    ELSE LET sc == ParagraphScore(q_tokens, corpus[i])
         IN  (IF sc > 0 THEN <<[source |-> i, text |-> corpus[i], score |-> sc]>> ELSE <<>>)
             \o ScoredFrom(corpus, q_tokens, i + 1)

\* scored.sort(key=score, reverse=True), a stable sort
RECURSIVE InsertSnippet(_, _)
InsertSnippet(sorted, sn) ==
    IF sorted = <<>> THEN <<sn>>
    ELSE IF Head(sorted).score >= sn.score
         THEN <<Head(sorted)>> \o InsertSnippet(Tail(sorted), sn)
         ELSE <<sn>> \o sorted

RECURSIVE SortSnippets(_)
SortSnippets(scored) ==
    IF scored = <<>> THEN <<>>
    ELSE InsertSnippet(SortSnippets(SubSeq(scored, 1, Len(scored) - 1)),
                       scored[Len(scored)])

\* HybridRetriever.search(query, category_hint, k)
SearchResult(corpus, q, category_hint, k) ==
    IF corpus = <<>> THEN <<>>
    ELSE PySlice(SortSnippets(ScoredFrom(corpus, QueryTokens(q, category_hint), 1)), k)

\* HybridRetriever.__init__: the corpus is loaded.
InitRetrieve ==
    /\ pc = "search_input"
    /\ ExecIdle
    /\ JudgeIdle
    /\ BrainstormIdle
    /\ ProbeIdle /\ DetectIdle /\ ClassifyIdle /\ ClientIdle /\ ServerIdle /\ RenderIdle
    /\ docs \in Corpora
    /\ docs_loaded = docs
    /\ query = <<>>
    /\ query_pieces = 0
    /\ search_args = [category_hint |-> <<>>, k |-> 0]
    /\ snippets = <<>>

retrieveFrame == <<coreVars, probeVars, detectVars, classifyVars, clientVars, serverVars, renderVars>>

\* The caller extends the query.
AddQueryPiece(piece) ==
    /\ pc = "search_input"
    /\ query_pieces < MaxQueryPieces
    /\ query_pieces' = query_pieces + 1
    /\ query' = query \o piece
    /\ UNCHANGED <<pc, docs, docs_loaded, search_args, snippets, retrieveFrame>>

\* retriever.search(query, category_hint, k)
Search(category_hint, k) ==
    /\ pc = "search_input"
    /\ search_args' = [category_hint |-> category_hint, k |-> k]
    /\ snippets' = SearchResult(docs, query, category_hint, k)
    /\ pc' = "searched"
    /\ UNCHANGED <<docs, docs_loaded, query, query_pieces, retrieveFrame>>

NextRetrieve ==
    \/ \E piece \in QueryPieces : AddQueryPiece(piece)
    \/ \E category_hint \in SearchHints, k \in SearchKs : Search(category_hint, k)

SpecRetrieve == InitRetrieve /\ [][NextRetrieve]_vars

\* The score the claim gives a paragraph: twice the number of query tokens
\* (repeats and the hint included) that occur in the lowercased paragraph,
\* plus the number of distinct such tokens.
ClaimedParagraphScore(q_tokens, para) ==
    2 * Cardinality({i \in 1..Len(q_tokens) : Contains(q_tokens[i], Lower(para))})
    + Cardinality({t \in Range(q_tokens) : Contains(t, Lower(para))})

\* C28: search returns at most k snippets, each with a score > 0, in
\* non-increasing score order, the score of a paragraph being as claimed;
\* they are the k best of the paragraphs with a positive score; an empty
\* corpus gives []; and the loaded corpus is never modified.
C28_TopKByKeywordScore ==
    /\ docs = docs_loaded
    /\ pc = "searched" =>
          \E q_tokens \in {QueryTokens(query, search_args.category_hint)} :
              /\ Len(snippets) <= search_args.k
              /\ docs = <<>> => snippets = <<>>
              /\ \A j \in 1..Len(snippets) :
                    /\ snippets[j].score > 0
                    /\ snippets[j].source \in 1..Len(docs)
                    /\ snippets[j].text = docs[snippets[j].source]
                    /\ snippets[j].score = ClaimedParagraphScore(q_tokens, snippets[j].text)
                    /\ j > 1 => snippets[j - 1].score >= snippets[j].score
              /\ \A i, j \in 1..Len(snippets) : i # j => snippets[i].source # snippets[j].source
              /\ \A d \in 1..Len(docs) :
                    (ClaimedParagraphScore(q_tokens, docs[d]) > 0
                       /\ \A j \in 1..Len(snippets) : snippets[j].source # d)
                    => /\ Len(snippets) = search_args.k
                       /\ \A j \in 1..Len(snippets) :
                             snippets[j].score >= ClaimedParagraphScore(q_tokens, docs[d])

\* Witness of C28: the query "WiFi WiFi" with the hint Network was searched
\* with k = 1 in a corpus of three paragraphs; the one paragraph holding
\* wifi and network came back with score 2 * 3 + 2 = 8.
C28_Witness ==
    /\ pc = "searched"
    /\ docs = <<ParaKernel, ParaZip, ParaWifi>>
    /\ query = <<"W","i","F","i"," ","W","i","F","i">>
    /\ search_args = [category_hint |-> <<"N","e","t","w","o","r","k">>, k |-> 1]
    /\ Len(snippets) = 1
    /\ snippets[1].source = 3
    /\ snippets[1].score = 8

(***************************************************************************)
(* TemplateLoader.render_template                                          *)
(*                                                                         *)
(* Template, context values and the rendered prompt are sequences of       *)
(* characters.  The context is the dict built by generate_ideas, kept as   *)
(* the sequence of its entries in insertion order, which is the order      *)
(* ctx.items() yields them in.                                             *)
(***************************************************************************)
MaxTemplatePieces == 3

KeySYSTEM == <<"S", "Y", "S", "T", "E", "M">>
KeyCONNECTIVITY == <<"C", "O", "N", "N", "E", "C", "T", "I", "V", "I", "T", "Y">>
KeyISSUE == <<"I", "S", "S", "U", "E">>
KeyCATEGORY_HINT == <<"C", "A", "T", "E", "G", "O", "R", "Y", "_", "H", "I", "N", "T">>
KeyN == <<"N">>
KeyRETRIEVAL == <<"R", "E", "T", "R", "I", "E", "V", "A", "L">>
KeyFOO == <<"F", "O", "O">>

\* f"{{{{#{key}}}}}", f"{{{{/{key}}}}}" and f"{{{{{k}}}}}"
StartMarker(key) == <<"{", "{", "#">> \o key \o <<"}", "}">>
EndMarker(key) == <<"{", "{", "/">> \o key \o <<"}", "}">>
Placeholder(key) == <<"{", "{">> \o key \o <<"}", "}">>

\* The pieces templates are written from.
TemplatePieces ==
    { StartMarker(KeyRETRIEVAL), EndMarker(KeyRETRIEVAL),
      StartMarker(KeyN), EndMarker(KeyN),
      StartMarker(KeyCATEGORY_HINT) \o <<"h">> \o EndMarker(KeyCATEGORY_HINT),
      Placeholder(KeyISSUE), Placeholder(KeyFOO), <<"x">> }

\* The issue texts a user may send, the hints and the retrieved text.
RenderIssues == { <<"w", "i", "f", "i">>, Placeholder(KeyN), Placeholder(KeySYSTEM) }
RenderHints == { <<>>, <<"n", "e", "t">> }
RenderRetrievals == { <<>>, <<"d", "o", "c">> }

\* The dict generate_ideas builds, in insertion order.
BuildContext(issue_text, category_hint, n, retrieval_text) ==
    << [key |-> KeySYSTEM, value |-> <<"S">>],
       [key |-> KeyCONNECTIVITY, value |-> <<"C">>],
       [key |-> KeyISSUE, value |-> issue_text],
       [key |-> KeyCATEGORY_HINT, value |-> category_hint],
       [key |-> KeyN, value |-> n],
       [key |-> KeyRETRIEVAL, value |-> retrieval_text] >>

\* ctx.get(key) or ''
CtxGet(context, key) ==
    IF \E e \in 1..Len(context) : context[e].key = key
    THEN context[CHOOSE e \in 1..Len(context) : context[e].key = key].value
    ELSE <<>>

MatchAt(text, pat, i) ==
    /\ i + Len(pat) - 1 <= Len(text)
    /\ text[i] = pat[1]
    /\ SubSeq(text, i, i + Len(pat) - 1) = pat

\* text.find(pat, from): the least position >= from where pat occurs, 0 if
\* there is none (positions count from 1).
RECURSIVE Find(_, _, _)
Find(text, pat, from) ==
    IF from + Len(pat) - 1 > Len(text) THEN 0
    ELSE IF MatchAt(text, pat, from) THEN from
    ELSE Find(text, pat, from + 1)

\* toggle_block(text, key, value)
RECURSIVE ToggleBlock(_, _, _)
ToggleBlock(text, key, value) ==
    LET start == StartMarker(key)
        end == EndMarker(key)
        i == Find(text, start, 1)
        j == Find(text, end, i)
    IN  IF i = 0 THEN text
        ELSE IF j = 0 THEN text
        ELSE ToggleBlock(SubSeq(text, 1, i - 1)
                           \o (IF value # <<>> THEN SubSeq(text, i + Len(start), j - 1) ELSE <<>>)
                           \o SubSeq(text, j + Len(end), Len(text)),
                         key, value)

\* text.replace(pat, value) from position i on
RECURSIVE ReplaceFrom(_, _, _, _)
ReplaceFrom(text, pat, value, i) ==
    IF i > Len(text) THEN <<>>
    ELSE IF MatchAt(text, pat, i) THEN value \o ReplaceFrom(text, pat, value, i + Len(pat))
    ELSE <<text[i]>> \o ReplaceFrom(text, pat, value, i + 1)

\* for k, v in ctx.items(): out = out.replace("{{k}}", v or '')
RECURSIVE ReplaceEach(_, _, _)
ReplaceEach(out, context, e) ==
    IF e > Len(context) THEN out
    ELSE ReplaceEach(ReplaceFrom(out, Placeholder(context[e].key), context[e].value, 1),
                     context, e + 1)

\* The two optional blocks of render_template.
ToggleBlocks(template, context) ==
    ToggleBlock(ToggleBlock(template, KeyCATEGORY_HINT, CtxGet(context, KeyCATEGORY_HINT)),
                KeyRETRIEVAL, CtxGet(context, KeyRETRIEVAL))

\* TemplateLoader.render_template(tpl, ctx)
RenderTemplate(template, context) ==
    ReplaceEach(ToggleBlocks(template, context), context, 1)

\* TemplateLoader.load_template returned nothing yet.
InitRender ==
    /\ pc = "template"
    /\ ExecIdle
    /\ JudgeIdle
    /\ BrainstormIdle
    /\ ProbeIdle /\ DetectIdle /\ ClassifyIdle /\ ClientIdle /\ ServerIdle /\ RetrieveIdle
    /\ tpl = <<>>
    /\ tpl_pieces = 0
    /\ ctx = <<>>
    /\ prompt = <<>>

renderFrame == <<coreVars, probeVars, detectVars, classifyVars, clientVars, serverVars, retrieveVars>>

\* The template file is written piece by piece.
AddTemplatePiece(piece) ==
    /\ pc = "template"
    /\ tpl_pieces < MaxTemplatePieces
    /\ tpl_pieces' = tpl_pieces + 1
    /\ tpl' = tpl \o piece
    /\ UNCHANGED <<pc, ctx, prompt, renderFrame>>

\* generate_ideas builds the context and renders the prompt.
Render(issue_text, category_hint, retrieval_text) ==
    /\ pc = "template"
    /\ ctx' = BuildContext(issue_text, category_hint, <<"5">>, retrieval_text)
    /\ prompt' = RenderTemplate(tpl, ctx')
    /\ pc' = "rendered"
    /\ UNCHANGED <<tpl, tpl_pieces, renderFrame>>

NextRender ==
    \/ \E piece \in TemplatePieces : AddTemplatePiece(piece)
    \/ \E issue_text \in RenderIssues, category_hint \in RenderHints,
          retrieval_text \in RenderRetrievals :
            Render(issue_text, category_hint, retrieval_text)

SpecRender == InitRender /\ [][NextRender]_vars

\* The keys a template may name: those of the context and one that the
\* context does not hold.
ClaimKeys == { KeySYSTEM, KeyCONNECTIVITY, KeyISSUE, KeyCATEGORY_HINT, KeyN, KeyRETRIEVAL, KeyFOO }

\* The keys whose first start marker has an end marker after it.
OpenBlocks(text) ==
    { k \in ClaimKeys :
        \E i \in {Find(text, StartMarker(k), 1)} :
            i # 0 /\ Find(text, EndMarker(k), i) # 0 }

\* Conditional blocks as the specification resolves them: for any key, the
\* leftmost start marker that has a following end marker is resolved first,
\* until there is none.
RECURSIVE ClaimedBlocks(_, _)
ClaimedBlocks(text, context) ==
    IF OpenBlocks(text) = {} THEN text
    ELSE LET k == CHOOSE k1 \in OpenBlocks(text) :
                     \A k2 \in OpenBlocks(text) :
                         Find(text, StartMarker(k1), 1) <= Find(text, StartMarker(k2), 1)
             i == Find(text, StartMarker(k), 1)
             j == Find(text, EndMarker(k), i)
         IN  ClaimedBlocks(SubSeq(text, 1, i - 1)
                             \o (IF CtxGet(context, k) # <<>>
                                 THEN SubSeq(text, i + Len(StartMarker(k)), j - 1) ELSE <<>>)
                             \o SubSeq(text, j + Len(EndMarker(k)), Len(text)),
                           context)

\* One pass over text from position i on: every placeholder of a key in keys
\* becomes the context value (empty if missing); substituted text is not
\* looked at again.
RECURSIVE SubstituteOnce(_, _, _, _)
SubstituteOnce(text, context, keys, i) ==
    IF i > Len(text) THEN <<>>
    ELSE IF \E k \in keys : MatchAt(text, Placeholder(k), i)
    THEN LET k == CHOOSE k1 \in keys : MatchAt(text, Placeholder(k1), i)
         IN  CtxGet(context, k) \o SubstituteOnce(text, context, keys, i + Len(Placeholder(k)))
    ELSE <<text[i]>> \o SubstituteOnce(text, context, keys, i + 1)

ContextKeys(context) == { context[e].key : e \in 1..Len(context) }

ReverseOrder(context) == [e \in 1..Len(context) |-> context[Len(context) + 1 - e]]

\* C29: render resolves the conditional blocks of every key, leftmost first,
\* keeping the inner text when the context value is truthy and dropping the
\* span otherwise, and afterwards replaces every placeholder by the context
\* value, the empty string if the key is missing or its value falsy.
C29_EveryBlockAndPlaceholderResolved ==
    pc = "rendered" =>
        prompt = SubstituteOnce(ClaimedBlocks(tpl, ctx), ctx, ClaimKeys, 1)

\* C30: text substituted for a placeholder is never expanded itself, so the
\* prompt is what one pass over the template gives and is the same when the
\* context keys are substituted in the opposite order.
C30_SubstitutedTextNotExpanded ==
    pc = "rendered" =>
        /\ prompt = SubstituteOnce(ToggleBlocks(tpl, ctx), ctx, ContextKeys(ctx), 1)
        /\ prompt = RenderTemplate(tpl, ReverseOrder(ctx))

====
